---- MODULE Spec2Model ----
(***************************************************************************)
(* p-vector-rs: the scan pipeline (scan_action), the repository index      *)
(* (pv_repos, pv_packages, pv_package_duplicate and the per-package        *)
(* tables) and the garbage collector (run_gc), as a state machine over a   *)
(* small mirror; and the release renderer (release_action, generate.rs),   *)
(* the dists tree it writes and the collector's work on that tree          *)
(* (gc_action).                                                            *)
(*                                                                         *)
(* A path is the sequence of its components; the filename column holds the *)
(* path relative to the mirror root.  Option<T> is <<>> (None) or <<v>>    *)
(* (Some(v)).                                                              *)
(***************************************************************************)
EXTENDS Integers, Sequences, FiniteSets, Bags, TLC

VARIABLES
    disk,          \* the pool tree: absolute path -> what is there
    dirs,          \* the pool/<branch>/<component> directories that exist
    db,            \* the tables
    clock,         \* the time: what now() returns, and the mtime a written file gets
    notifier,      \* config.change_notifier is Some(_), for the scan that runs
    pc,            \* "idle", or "done" when scan_action has just returned
    delete,        \* scan_action: to_remove of validate_packages (a bag)
    scanned,       \* scan_action: already_scanned of validate_packages
    needs_update,  \* scan_action: the needs_update queue
    changed,       \* scan_action: get_changed_packages
    packages,      \* scan_action: what scan_packages_advanced returned
    published,     \* the batches published on the notifier by this scan
    result,        \* how the last scan_action ended
    oplog,         \* history: the writes and publications of this scan, in order
    pre,           \* history: the tables when this scan started
    rescan,        \* history: the pool tree is as the last successful scan left it
    dirty,         \* history: the pool tree changed since the last successful scan
    nops,          \* history: number of changes made to the pool tree
    dists,         \* the dists tree: its files, and the by-hash/SHA256 files of a branch
    config,        \* the configuration file the process was started with
    cmd,           \* history: the last release, gc or full command and how it went
    nruns,         \* history: number of release, gc and full commands run
    input,         \* what a reader is given: bytes, a name, a path, an archive
    output         \* what the reader made of it

vars == <<disk, dirs, db, clock, notifier, pc, delete, scanned, needs_update,
          changed, packages, published, result, oplog, pre, rescan, dirty, nops,
          dists, config, cmd, nruns, input, output>>

locals == <<delete, scanned, needs_update, changed, packages>>

release_vars == <<dists, config, cmd, nruns>>

reader_vars == <<input, output>>

-----------------------------------------------------------------------------
(* Bounds *)

MaxDiskOps == 3    \* changes made to the pool tree
MaxScans == 2      \* runs of scan_action
MaxRuns == 2       \* release, gc and full commands
MaxChanges == 3    \* changes from outside between those commands
MaxLen == 5        \* bytes of a control text or of a library name
MaxText == 6       \* bytes of a release text
MaxDepth == 4      \* components of a path given to get_branch_name
MaxMembers == 2    \* members of an ar archive
MaxRecords == 3    \* records handed to validate_packages

-----------------------------------------------------------------------------
(* The mirror *)

None == <<>>
Some(v) == <<v>>

MirrorRoot == <<"mirror">>

P1 == <<"pool", "stable", "main", "a.deb">>
P2 == <<"pool", "stable", "main", "copy", "a.deb">>
P3 == <<"pool", "topic", "main", "a.deb">>

RelPaths == {P1, P2, P3}

Join(root, rel) == root \o rel

IsPrefix(prefix, path) ==
    /\ Len(prefix) <= Len(path)
    /\ SubSeq(path, 1, Len(prefix)) = prefix

\* Path::strip_prefix on a path that has the prefix
StripPrefix(path, prefix) == SubSeq(path, Len(prefix) + 1, Len(path))

AbsPaths == {Join(MirrorRoot, p) : p \in RelPaths}

Topics == {<<p[2], p[3]>> : p \in RelPaths}

TopicPath(t) == t[1] \o "/" \o t[2]

\* The .deb files that can be put in the pool.  size and sha256 are those of
\* the whole file; ok says whether the archive parses; extra holds the control
\* fields left over, so_requires and so_provides the names collect_files found
\* (as sequences of characters), files the paths of the data.tar entries.
DebIds == {"a1", "a1r", "a2", "bad"}

DotSo == <<".", "s", "o">>

Deb(d) ==
    CASE d = "a1"  -> [ok |-> TRUE, name |-> "a", version |-> "1", arch |-> "amd64",
                       size |-> 10, sha256 |-> "h1",
                       extra |-> [Depends |-> "libc"],
                       so_requires |-> {<<"c">> \o DotSo \o <<".", "6">>},
                       so_provides |-> {},
                       files |-> {<<".", "usr", "bin", "a">>}]
      [] d = "a1r" -> [ok |-> TRUE, name |-> "a", version |-> "1", arch |-> "amd64",
                       size |-> 10, sha256 |-> "h2",
                       extra |-> [Depends |-> "", Provides |-> "a-ng"],
                       so_requires |-> {},
                       so_provides |-> {<<"a">> \o DotSo},
                       files |-> {<<".", "usr", "lib", "a.so">>}]
      [] d = "a2"  -> [ok |-> TRUE, name |-> "a", version |-> "2", arch |-> "amd64",
                       size |-> 11, sha256 |-> "h3",
                       extra |-> [Depends |-> "libc"],
                       so_requires |-> {<<"c">> \o DotSo \o <<".", "6">>},
                       so_provides |-> {},
                       files |-> {<<".", "usr", "bin", "a">>}]
      [] OTHER     -> [ok |-> FALSE, size |-> 10, sha256 |-> "h4"]

NoFile == [kind |-> "none"]
Directory == [kind |-> "dir"]
File(d, m) == [kind |-> "file", deb |-> d, mtime |-> m]

Entry(fs, path) == IF path \in DOMAIN fs THEN fs[path] ELSE NoFile

-----------------------------------------------------------------------------
(* Helpers *)

RECURSIVE SumOver(_, _)
SumOver(S, f) ==
    IF S = {} THEN 0
    ELSE LET x == CHOOSE y \in S : TRUE IN f[x] + SumOver(S \ {x}, f)

\* every order in which the elements of S can come
Orders(S) ==
    {s \in [1..Cardinality(S) -> S] :
        \A i, j \in 1..Cardinality(S) : i # j => s[i] # s[j]}

RECURSIVE Concat(_)
Concat(ss) == IF ss = <<>> THEN <<>> ELSE Head(ss) \o Concat(Tail(ss))

-----------------------------------------------------------------------------
(* scan/mod.rs, scan/dbscan.rs: reading the pool *)

PKG_RELATION == <<"Depends", "Pre-Depends", "Recommends", "Suggests", "Enhances",
                  "Breaks", "Conflicts", "Provides", "Replaces", "Multi-Arch">>

\* the SQL function comparable_dpkgver: a key ordered as Debian orders versions
comparable_dpkgver(version) ==
    CASE version = "1" -> 1
      [] version = "2" -> 2
      [] OTHER -> 0

get_repo_key_name(repo, arch) ==
    IF repo[2] = "main" THEN arch ELSE repo[2] \o "-" \o arch

\* str::find: the 0-based index of the first occurrence
Find(name, pat) ==
    LET at == {i \in 1..(Len(name) - Len(pat) + 1) :
                  SubSeq(name, i, i + Len(pat) - 1) = pat}
    IN  IF at = {} THEN None
        ELSE Some((CHOOSE i \in at : \A j \in at : i <= j) - 1)

split_so_name(name) ==
    LET splitter == Find(name, DotSo)
        so_name == IF splitter = None THEN None
                   ELSE Some(SubSeq(name, 1, splitter[1] + 3))
        so_version == IF splitter = None THEN None
                      ELSE IF splitter[1] >= Len(name) - 3 THEN None
                      ELSE Some(SubSeq(name, splitter[1] + 4, Len(name)))
    IN  <<so_name, so_version>>

normalize_path(path) ==
    IF path = <<".">> THEN <<>>
    ELSE IF Len(path) > 0 /\ Head(path) \in {".", "/"} THEN Tail(path)
    ELSE path

Err == [ok |-> FALSE]
Ok(v) == [ok |-> TRUE, value |-> v]

\* no reader has run
NotRead == [by |-> "none", result |-> Err]

\* Component::Normal: a name, not ".."
Normal(p) == p # ".."

get_branch_name(rel_path) ==
    IF ~IsPrefix(<<"pool">>, rel_path) THEN Err
    ELSE LET comp == StripPrefix(rel_path, <<"pool">>)
         IN  IF Len(comp) < 2 \/ ~Normal(comp[1]) \/ ~Normal(comp[2]) THEN Err
             ELSE Ok(<<comp[1], comp[2]>>)

open_deb_advanced(entry, filename, branch) ==
    LET d == Deb(entry.deb)
    IN  IF ~d.ok THEN Err
        ELSE Ok([deb |-> [name |-> d.name, version |-> d.version, arch |-> d.arch,
                          extra |-> d.extra],
                 filename |-> filename,
                 size |-> d.size,
                 sha256 |-> d.sha256,
                 repo |-> branch,
                 mtime |-> entry.mtime,
                 contents |-> [files |-> d.files,
                               so_provides |-> d.so_provides,
                               so_requires |-> d.so_requires]])

scan_single_deb_advanced(fs, path, root) ==
    LET entry == Entry(fs, path)
    IN  IF entry.kind # "file" \/ ~IsPrefix(root, path) THEN Err
        ELSE LET rel_filename == StripPrefix(path, root)
                 component == get_branch_name(rel_filename)
             IN  IF ~component.ok THEN Err
                 ELSE open_deb_advanced(entry, rel_filename, component.value)

\* scan_packages_advanced collecting into a Result: one failure, no metas
RECURSIVE scan_packages_advanced_AllOrNothing(_, _, _)
scan_packages_advanced_AllOrNothing(fs, entries, root) ==
    IF entries = <<>> THEN <<>>
    ELSE LET meta == scan_single_deb_advanced(fs, Head(entries), root)
             rest == scan_packages_advanced_AllOrNothing(fs, Tail(entries), root)
         IN  IF meta.ok /\ Len(rest) = Len(entries) - 1 THEN <<meta.value>> \o rest
             ELSE <<>>

\* the metas of the paths of entries (a sequence) that parse, in that order
RECURSIVE scan_packages_advanced(_, _, _)
scan_packages_advanced(fs, entries, root) ==
    IF entries = <<>> THEN <<>>
    ELSE LET meta == scan_single_deb_advanced(fs, Head(entries), root)
         IN  (IF meta.ok THEN <<meta.value>> ELSE <<>>)
                 \o scan_packages_advanced(fs, Tail(entries), root)

discover_topics_components(ds) == {TopicPath(t) : t \in ds}

is_deb(path) == path[Len(path)] \in {"a.deb"}

collect_all_packages(fs) ==
    {p \in DOMAIN fs : fs[p].kind # "none" /\ is_deb(p)}

sha256sum_validate(entry, expected) == Deb(entry.deb).sha256 = expected

\* Outcome with the sha256 check taken for a plain match: no mtime refresh
Outcome_NoRefresh(fs, root, p) ==
    LET entry == Entry(fs, Join(root, p.filename))
    IN  IF entry.kind = "none" THEN "remove"
        ELSE IF entry.kind = "file"
        THEN IF Deb(entry.deb).size # p.size THEN "rescan"
             ELSE IF entry.mtime = p.mtime THEN "scanned"
             ELSE IF sha256sum_validate(entry, p.sha256) THEN "scanned"
             ELSE "rescan"
        ELSE "remove"

\* what validate_packages does with one record of the database
Outcome(fs, root, p) ==
    LET entry == Entry(fs, Join(root, p.filename))
    IN  IF entry.kind = "none" THEN "remove"
        ELSE IF entry.kind = "file"
        THEN IF Deb(entry.deb).size # p.size THEN "rescan"
             ELSE IF entry.mtime = p.mtime THEN "scanned"
             ELSE IF sha256sum_validate(entry, p.sha256) THEN "update"
             ELSE "rescan"
        ELSE "remove"

\* packages is the bag of records list_all_packages returned; the three
\* results are bags too: a path comes once for every record that put it there
validate_packages(fs, root, pkgs) ==
    LET recs == BagToSet(pkgs)
        Path(p) == Join(root, p.filename)
        Pushed(which, elem(_)) ==
            LET from == {p \in recs : Outcome(fs, root, p) \in which}
            IN  [e \in {elem(p) : p \in from} |->
                    SumOver({p \in from : elem(p) = e}, pkgs)]
        Update(p) == <<Path(p), Entry(fs, Path(p)).mtime>>
    IN  <<Pushed({"remove"}, Path),
          Pushed({"scanned", "update"}, Path),
          Pushed({"update"}, Update)>>

\* get_changed_packages that forgets the scanned set
get_changed_packages_All(discovered, done) == discovered

get_changed_packages(discovered, done) ==
    {d \in discovered : d \notin BagToSet(done)}

\* the paths of the bag, relative to the mirror root
collect_removed_packages(removed, mirror_root) ==
    LET rel == {StripPrefix(p, mirror_root) : p \in BagToSet(removed)}
    IN  [r \in rel |-> removed[Join(mirror_root, r)]]


-----------------------------------------------------------------------------
(* db.rs, scan/dbscan.rs: the repository index *)

EmptyDb ==
    [pv_repos |-> {}, pv_packages |-> {}, pv_package_duplicate |-> {},
     pv_package_files |-> {}, pv_package_dependencies |-> {}, pv_package_sodep |-> {}]

Key(r) == <<r.package, r.version, r.repo>>

\* ON DELETE CASCADE from pv_packages to the per-package tables
DeletePackages(d, rows) ==
    LET keys == {Key(r) : r \in rows}
    IN  [d EXCEPT !.pv_packages = @ \ rows,
                  !.pv_package_files = {f \in @ : Key(f) \notin keys},
                  !.pv_package_dependencies = {f \in @ : Key(f) \notin keys},
                  !.pv_package_sodep = {f \in @ : Key(f) \notin keys}]

\* ON DELETE CASCADE from pv_repos to pv_packages and pv_package_duplicate
DeleteRepos(d, repos) ==
    LET names == {r.name : r \in repos}
        gone == {p \in d.pv_packages : p.repo \in names}
    IN  [DeletePackages(d, gone) EXCEPT
            !.pv_repos = @ \ repos,
            !.pv_package_duplicate = {p \in @ : p.repo \notin names}]

InComponent(d, rows, component) ==
    {p \in rows : \E r \in d.pv_repos : p.repo = r.name /\ r.path = component}

list_packages_in_component(d, component) ==
    SetToBag(InComponent(d, d.pv_packages, component))
        (+) SetToBag(InComponent(d, d.pv_package_duplicate, component))

RECURSIVE list_all_packages(_, _)
list_all_packages(d, components) ==
    IF components = {} THEN EmptyBag
    ELSE LET component == CHOOSE c \in components : TRUE
         IN  list_packages_in_component(d, component)
                 (+) list_all_packages(d, components \ {component})

PVMessage(comp, pkg, arch, method, from_ver, to_ver) ==
    [comp |-> comp, pkg |-> pkg, arch |-> arch, method |-> method,
     from_ver |-> from_ver, to_ver |-> to_ver]

\* the rows the query of get_removed_packages_message finds for one path
RemovedRecords(d, path) ==
    {p \in d.pv_packages : p.filename = path /\ \E r \in d.pv_repos : p.repo = r.name}

RemovedMessage(d, p) ==
    LET r == CHOOSE r \in d.pv_repos : p.repo = r.name
    IN  PVMessage(r.branch \o "-" \o r.component, p.package, p.architecture,
                  "-", Some(p.version), None)

\* path is a bag of paths.  The possible results: a failure when some path
\* has no row (fetch_one), otherwise one message for each copy of each path,
\* made from a row with that filename.
get_removed_packages_message(d, path) ==
    LET paths == BagToSet(path)
    IN  IF \E q \in paths : RemovedRecords(d, q) = {} THEN {Err}
        ELSE {Ok(LET msgs == {RemovedMessage(d, record[q]) : q \in paths}
                 IN  [m \in msgs |->
                         SumOver({q \in paths : RemovedMessage(d, record[q]) = m}, path)]) :
                 record \in {f \in [paths -> d.pv_packages] :
                                \A q \in paths : f[q] \in RemovedRecords(d, q)}}

\* remove_packages_by_path that skips a path without a row
remove_packages_by_path_Skip(d, path, now) ==
    LET paths == BagToSet(path)
        gone == {p \in d.pv_packages : p.filename \in paths}
        changed_repos == {p.repo : p \in gone}
    IN  {Ok([DeletePackages(d, gone) EXCEPT
                !.pv_repos = {IF r.name \in changed_repos
                              THEN [r EXCEPT !.mtime = now] ELSE r : r \in @}])}

\* The possible results.  Every DELETE ... RETURNING must return a row
\* (fetch_one), so a path with no row, or a path that comes twice, fails the
\* transaction and nothing is changed.
remove_packages_by_path(d, path, now) ==
    LET paths == BagToSet(path)
        Rows(q) == {p \in d.pv_packages : p.filename = q}
    IN  IF \E q \in paths : Rows(q) = {} \/ path[q] > 1 THEN {Err}
        ELSE {Ok(LET changed_repos == {record[q].repo : q \in paths}
                     gone == {p \in d.pv_packages : p.filename \in paths}
                 IN  [DeletePackages(d, gone) EXCEPT
                         !.pv_repos = {IF r.name \in changed_repos
                                       THEN [r EXCEPT !.mtime = now] ELSE r : r \in @}]) :
                 record \in {f \in [paths -> d.pv_packages] :
                                \A q \in paths : f[q] \in Rows(q)}}

update_unchanged_packages(d, queue, mirror_root) ==
    LET valid == {u \in BagToSet(queue) : IsPrefix(mirror_root, u[1])}
        Hit(p) == {u \in valid : StripPrefix(u[1], mirror_root) = p.filename}
    IN  [d EXCEPT !.pv_packages =
            {IF Hit(p) = {} THEN p
             ELSE [p EXCEPT !.mtime = (CHOOSE u \in Hit(p) : TRUE)[2]] : p \in @}]

RepoName(package) ==
    get_repo_key_name(package.repo, package.deb.arch) \o "/" \o package.repo[1]

\* WhatChangedOne comparing against the lowest version, not the highest
WhatChangedOne_Lowest(d, p) ==
    LET repo == RepoName(p)
        comp == p.repo[1] \o "-" \o p.repo[2]
        rows == {r \in d.pv_packages : r.package = p.deb.name /\ r.repo = repo}
        top == {r \in rows : \A q \in rows :
                   comparable_dpkgver(q.version) >= comparable_dpkgver(r.version)}
    IN  IF rows = {}
        THEN {<<PVMessage(comp, p.deb.name, p.deb.arch, "+", None, Some(p.deb.version))>>}
        ELSE {LET newer == comparable_dpkgver(p.deb.version) > comparable_dpkgver(record.version)
              IN  IF newer
                  THEN <<PVMessage(comp, p.deb.name, p.deb.arch, "^",
                                   Some(record.version), Some(p.deb.version))>>
                  ELSE IF p.deb.version = record.version
                  THEN <<PVMessage(comp, p.deb.name, p.deb.arch, "*",
                                   Some(record.version), Some(p.deb.version))>>
                  ELSE <<>> : record \in top}

\* what what_changed can emit for one package: <<>> or <<message>>
WhatChangedOne(d, p) ==
    LET repo == RepoName(p)
        comp == p.repo[1] \o "-" \o p.repo[2]
        rows == {r \in d.pv_packages : r.package = p.deb.name /\ r.repo = repo}
        top == {r \in rows : \A q \in rows :
                   comparable_dpkgver(q.version) <= comparable_dpkgver(r.version)}
    IN  IF rows = {}
        THEN {<<PVMessage(comp, p.deb.name, p.deb.arch, "+", None, Some(p.deb.version))>>}
        ELSE {LET newer == comparable_dpkgver(p.deb.version) > comparable_dpkgver(record.version)
              IN  IF newer
                  THEN <<PVMessage(comp, p.deb.name, p.deb.arch, "^",
                                   Some(record.version), Some(p.deb.version))>>
                  ELSE IF p.deb.version = record.version
                  THEN <<PVMessage(comp, p.deb.name, p.deb.arch, "*",
                                   Some(record.version), Some(p.deb.version))>>
                  ELSE <<>> : record \in top}

\* the message vectors what_changed can return
RECURSIVE what_changed(_, _)
what_changed(d, pkgs) ==
    IF pkgs = <<>> THEN {<<>>}
    ELSE {h \o t : h \in WhatChangedOne(d, Head(pkgs)), t \in what_changed(d, Tail(pkgs))}

RepositoryMeta(p) ==
    LET key == get_repo_key_name(p.repo, p.deb.arch)
    IN  [name |-> key \o "/" \o p.repo[1],
         key |-> key,
         path |-> p.repo[1] \o "/" \o p.repo[2],
         branch |-> p.repo[1],
         component |-> p.repo[2],
         architecture |-> p.deb.arch]

\* the HashMap name -> RepositoryMeta: a later package replaces an earlier one
RECURSIVE collect_changed_repos(_)
collect_changed_repos(pkgs) ==
    IF pkgs = <<>> THEN {}
    ELSE LET last == RepositoryMeta(pkgs[Len(pkgs)])
             rest == collect_changed_repos(SubSeq(pkgs, 1, Len(pkgs) - 1))
         IN  {r \in rest : r.name # last.name} \cup {last}

update_changed_repos(d, pkgs, now) ==
    LET changed_repos == collect_changed_repos(pkgs)
        names == {r.name : r \in changed_repos}
        known == {r.name : r \in d.pv_repos}
    IN  [d EXCEPT !.pv_repos =
            {IF r.name \in names THEN [r EXCEPT !.mtime = now] ELSE r : r \in @}
            \cup {[name |-> r.name, path |-> r.path,
                   testing |-> IF r.branch = "stable" THEN 0 ELSE 1,
                   branch |-> r.branch, component |-> r.component,
                   architecture |-> r.architecture, mtime |-> now] :
                      r \in {c \in changed_repos : c.name \notin known}}]

PackageRow(package) ==
    [package |-> package.deb.name, version |-> package.deb.version,
     repo |-> RepoName(package), architecture |-> package.deb.arch,
     filename |-> package.filename, size |-> package.size,
     sha256 |-> package.sha256, mtime |-> package.mtime]

DependencyRows(package) ==
    {[package |-> package.deb.name, version |-> package.deb.version,
      repo |-> RepoName(package), relationship |-> PKG_RELATION[i],
      value |-> package.deb.extra[PKG_RELATION[i]]] :
        i \in {j \in 1..Len(PKG_RELATION) :
                  /\ PKG_RELATION[j] \in DOMAIN package.deb.extra
                  /\ package.deb.extra[PKG_RELATION[j]] # ""}}

SodepRows(package, names, direction) ==
    {[package |-> package.deb.name, version |-> package.deb.version,
      repo |-> RepoName(package), depends |-> direction,
      name |-> split_so_name(so)[1], ver |-> split_so_name(so)[2]] : so \in names}

FileRows(package) ==
    {[package |-> package.deb.name, version |-> package.deb.version,
      repo |-> RepoName(package),
      path |-> normalize_path(SubSeq(f, 1, Len(f) - 1)),
      filename |-> f[Len(f)]] : f \in package.contents.files}

\* the rows the statement run for a duplicate copies into pv_package_duplicate
DuplicateRows(main, package) == {p \in main : p.filename = package.filename}

\* save_package_to_db that keeps the rows the key had
save_package_to_db_KeepRows(d, package) ==
    LET row == PackageRow(package)
        old == {p \in d.pv_packages : Key(p) = Key(row)}
        main == (d.pv_packages \ old) \cup {row}
        d2 == [d EXCEPT !.pv_packages = main,
                        !.pv_package_duplicate =
                            IF old = {} THEN @
                            ELSE {f \in @ : Key(f) # Key(row)} \cup DuplicateRows(main, package)]
        deps == DependencyRows(package)
    IN  IF ~\E r \in d.pv_repos : r.name = row.repo THEN Err
        ELSE Ok([d2 EXCEPT
                   !.pv_package_dependencies =
                       {f \in @ : ~\E g \in deps :
                           Key(f) = Key(g) /\ f.relationship = g.relationship} \cup deps,
                   !.pv_package_sodep =
                       @ \cup SodepRows(package, package.contents.so_requires, 1)
                         \cup SodepRows(package, package.contents.so_provides, 0),
                   !.pv_package_files = @ \cup FileRows(package)])

save_package_to_db(d, package) ==
    LET row == PackageRow(package)
        old == {p \in d.pv_packages : Key(p) = Key(row)}
        new == old = {}
        \* INSERT ... ON CONFLICT (package, version, repo) DO UPDATE
        main == (d.pv_packages \ old) \cup {row}
        d1 == [d EXCEPT !.pv_packages = main]
        d2 == IF new THEN d1
              ELSE [d1 EXCEPT
                      !.pv_package_sodep = {f \in @ : Key(f) # Key(row)},
                      !.pv_package_files = {f \in @ : Key(f) # Key(row)},
                      !.pv_package_dependencies = {f \in @ : Key(f) # Key(row)},
                      !.pv_package_duplicate =
                          {f \in @ : Key(f) # Key(row)} \cup DuplicateRows(main, package)]
        deps == DependencyRows(package)
    IN  IF ~\E r \in d.pv_repos : r.name = row.repo THEN Err
        ELSE Ok([d2 EXCEPT
                   !.pv_package_dependencies =
                       {f \in @ : ~\E g \in deps :
                           Key(f) = Key(g) /\ f.relationship = g.relationship} \cup deps,
                   !.pv_package_sodep =
                       @ \cup SodepRows(package, package.contents.so_requires, 1)
                         \cup SodepRows(package, package.contents.so_provides, 0),
                   !.pv_package_files = @ \cup FileRows(package)])

\* one transaction: a failure leaves the tables as they were
RECURSIVE save_packages_to_db(_, _)
save_packages_to_db(d, pkgs) ==
    IF pkgs = <<>> THEN Ok(d)
    ELSE LET one == save_package_to_db(d, Head(pkgs))
         IN  IF one.ok THEN save_packages_to_db(one.value, Tail(pkgs)) ELSE Err

-----------------------------------------------------------------------------
(* The dists tree *)

(* A directory of the dists tree is the sequence of its components below
   dists.  A file is named by the directory it is in and its file name, and a
   file name is cut into the pieces that the tests on names look at:
   <<"Contents-", "amd64", ".", "gz">>.  The files of a branch's
   by-hash/SHA256 directory are kept apart, in byhash: they are named by the
   sha256 of what they hold.  A tree is [dirs, files, byhash]; the temporary
   directory of release_action is a tree too. *)

Branches == {t[1] : t \in Topics}

\* the bytes of a file: how they are encoded, and the package records, the
\* Contents lines or the release text that were written
Bytes(enc, pkgs, lines, text) ==
    [enc |-> enc, pkgs |-> pkgs, lines |-> lines, text |-> text]

\* a file that was created and never written to
EmptyFile == Bytes("plain", {}, {}, <<>>)

\* the length of the bytes
Length(bytes) ==
    Cardinality(bytes.pkgs) + Cardinality(bytes.lines) + Len(bytes.text)
        + (IF bytes.enc = "plain" THEN 0 ELSE 1)

\* the digest stands for the bytes it was computed from: no collisions
sha256sum(bytes) == [sha256 |-> bytes]

Written(bytes, now) == [content |-> bytes, mtime |-> now]

NoFiles == [p \in {} |-> Written(EmptyFile, 0)]

EmptyTree == [dirs |-> {}, files |-> NoFiles, byhash |-> [b \in Branches |-> {}]]

ByHashDir(branch) == <<branch, "by-hash", "SHA256">>

\* create_dir_all
Parents(dir) == {SubSeq(dir, 1, i) : i \in 1..Len(dir)}

create_dir_all(tree, dir) == [tree EXCEPT !.dirs = @ \cup Parents(dir)]

\* File::create and write_all, in a directory that exists
WriteTo(tree, dir, name, bytes, now) ==
    [tree EXCEPT !.files =
        [p \in DOMAIN @ \cup {<<dir, name>>} |->
            IF p = <<dir, name>> THEN Written(bytes, now) ELSE @[p]]]

RemoveFiles(tree, gone) ==
    [tree EXCEPT !.files = [p \in DOMAIN @ \ gone |-> @[p]]]

\* std::fs::copy into by-hash/SHA256: a file of that name is written over
CopyToByHash(tree, branch, sha256, now) ==
    [tree EXCEPT !.byhash[branch] =
        {f \in @ : f.sha256 # sha256} \cup {[sha256 |-> sha256, mtime |-> now]}]

\* remove_dir_all: the directory, and everything below it
remove_dir_all(tree, dir) ==
    [dirs |-> {d \in tree.dirs : ~IsPrefix(dir, d)},
     files |-> [p \in {q \in DOMAIN tree.files : ~IsPrefix(dir, q[1])} |-> tree.files[p]],
     byhash |-> [b \in Branches |->
                    IF IsPrefix(dir, ByHashDir(b)) THEN {} ELSE tree.byhash[b]]]

IsEmptyDir(tree, dir) ==
    /\ dir \in tree.dirs
    /\ ~\E d \in tree.dirs : d # dir /\ IsPrefix(dir, d)
    /\ ~\E p \in DOMAIN tree.files : p[1] = dir

\* remove_dir: only a directory with nothing in it goes
remove_dir(tree, dir) ==
    IF IsEmptyDir(tree, dir) THEN [tree EXCEPT !.dirs = @ \ {dir}] ELSE tree

\* fs_extra::dir::move_dir(from/dists, mirror_root) with overwrite: the
\* directories of from are made where they are missing, each file is moved
\* to its place over the file that is there
move_dir(from, to) ==
    [to EXCEPT !.dirs = @ \cup from.dirs,
               !.files = [p \in DOMAIN @ \cup DOMAIN from.files |->
                             IF p \in DOMAIN from.files THEN from.files[p] ELSE @[p]]]

Range(s) == {s[i] : i \in 1..Len(s)}

-----------------------------------------------------------------------------
(* gc.rs *)

list_existing_branches(d) == {r.path : r \in d.pv_repos}

clean_removed_main_branches(d) ==
    DeleteRepos(d, {r \in d.pv_repos :
                       Cardinality({p.package : p \in {q \in d.pv_packages : q.repo = r.name}}) < 1})

run_gc(d, ds) ==
    LET d1 == [d EXCEPT !.pv_package_duplicate =
                  {p \in @ : ~\E m \in d.pv_packages : m.filename = p.filename}]
        d2 == clean_removed_main_branches(d1)
        known_branches == list_existing_branches(d2)
        to_remove == {branch \in known_branches :
                         ~\E t \in ds : TopicPath(t) = branch}
    IN  DeleteRepos(d2, {r \in d2.pv_repos : r.path \in to_remove})

\* the repos that run_gc deletes by path: their pool directory is gone
StaleRepos(d, ds) ==
    {r \in clean_removed_main_branches(d).pv_repos :
        ~\E t \in ds : TopicPath(t) = r.path}

\* one task of clean_dist_files: dists/<branch>/<component> goes, then the
\* InRelease of the branch, then the branch directory if nothing is left in it
CleanDist(tree, remove) ==
    LET path == <<remove[1], remove[2]>>
        p == <<remove[1]>>
        t1 == remove_dir_all(tree, path)
        t2 == RemoveFiles(t1, {<<p, <<"InRelease">>>>} \cap DOMAIN t1.files)
    IN  remove_dir(t2, p)

\* clean_dist_files leaving the dists tree alone
clean_dist_files_Keep(to_remove, tree) == tree

RECURSIVE clean_dist_files(_, _)
clean_dist_files(to_remove, tree) ==
    IF to_remove = {} THEN tree
    ELSE LET remove == CHOOSE r \in to_remove : TRUE
         IN  clean_dist_files(to_remove \ {remove}, CleanDist(tree, remove))

\* the dists tree after run_gc; nothing is touched when to_remove is empty
run_gc_dists(d, ds, tree) ==
    clean_dist_files({<<r.branch, r.component>> : r \in StaleRepos(d, ds)}, tree)

\* the sets of files clean_by_hash_files_inner can remove: the files are
\* sorted by mtime, the latest first, in an order that equal mtimes leave
\* open, and the first num_files - files_to_keep of them are removed
clean_by_hash_files_inner(byhash_files, files_to_keep) ==
    LET num_files == Cardinality(byhash_files)
    IN  IF num_files <= files_to_keep THEN {{}}
        ELSE {gone \in SUBSET byhash_files :
                 /\ Cardinality(gone) = num_files - files_to_keep
                 /\ \A a \in gone, b \in byhash_files \ gone : a.mtime >= b.mtime}

\* the trees clean_by_hash_files can leave
clean_by_hash_files(tree, branch, copies_to_keep) ==
    IF copies_to_keep < 0 THEN {tree}
    ELSE LET last_count == Cardinality({p \in DOMAIN tree.files : IsPrefix(<<branch>>, p[1])})
             files_to_keep == last_count * copies_to_keep
         IN  IF ByHashDir(branch) \notin tree.dirs THEN {tree}
             ELSE {[tree EXCEPT !.byhash[branch] = @ \ gone] :
                      gone \in clean_by_hash_files_inner(tree.byhash[branch], files_to_keep)}


-----------------------------------------------------------------------------
(* generate.rs: Packages and Contents *)

\* a rendering task can fail at its query, before it has touched the
\* disk, or at a write, after the files were created
TaskFaults == {"none", "query", "write"}

TaskResult(ok, tree) == [ok |-> ok, tree |-> tree]

ComponentRoot(t) == <<t[1], t[2]>>

PackageTemplate(d, p) ==
    [name |-> p.package, version |-> p.version, arch |-> p.architecture,
     path |-> p.filename, size |-> p.size, sha256 |-> p.sha256,
     dep |-> {<<x.relationship, x.value>> :
                 x \in {y \in d.pv_package_dependencies : Key(y) = Key(p)}}]

\* Packages and Packages.xz of one architecture; failed says that the
\* writes failed
render_packages_in_component_arch(tree, arch, pkgs, component_root, now, failed) ==
    LET dist_path == component_root \o <<"binary-" \o arch>>
        made == create_dir_all(tree, dist_path)
        plain == IF failed THEN EmptyFile ELSE Bytes("plain", pkgs, {}, <<>>)
        xz == IF failed THEN EmptyFile ELSE Bytes("xz", pkgs, {}, <<>>)
    IN  WriteTo(WriteTo(made, dist_path, <<"Packages">>, plain, now),
                dist_path, <<"Packages", ".", "xz">>, xz, now)

RECURSIVE RenderPackages(_, _, _, _, _, _)
RenderPackages(tree, archs, records, component_root, now, failing) ==
    IF archs = {} THEN tree
    ELSE LET arch == CHOOSE a \in archs : TRUE
             one == render_packages_in_component_arch(
                        tree, arch, {r \in records : r.arch = arch},
                        component_root, now, arch \in failing)
         IN  RenderPackages(one, archs \ {arch}, records, component_root, now, failing)

\* the outcomes of the task: the architectures come in the order of a
\* HashMap, and the first failure ends the task
render_packages_in_component(d, t, tree, now, fault) ==
    LET records == {PackageTemplate(d, p) :
                       p \in InComponent(d, d.pv_packages, TopicPath(t))}
        archs == {r.arch : r \in records}
    IN  IF fault = "query" THEN {TaskResult(FALSE, tree)}
        ELSE IF fault = "write" /\ archs # {}
        THEN {TaskResult(FALSE, RenderPackages(tree, done \cup {bad}, records,
                                               ComponentRoot(t), now, {bad})) :
                 <<bad, done>> \in {x \in archs \X SUBSET archs : x[1] \notin x[2]}}
        ELSE {TaskResult(TRUE, RenderPackages(tree, archs, records,
                                              ComponentRoot(t), now, {}))}

\* the lines of Contents-<arch>: one for each file path, with the packages
\* that ship it
ContentsLines(d, component, arch) ==
    LET names == {r.name : r \in {q \in d.pv_repos :
                     q.path = component /\ q.architecture \in {arch, "all"}}}
        rows == {f \in d.pv_package_files :
                    /\ f.repo \in names
                    /\ \E dp \in d.pv_packages : Key(dp) = Key(f)}
    IN  {[path |-> x[1], name |-> x[2],
          packages |-> {f.package : f \in {g \in rows : <<g.path, g.filename>> = x}}] :
            x \in {<<f.path, f.filename>> : f \in rows}}

\* s.contains("usr/bin/") on the line path/name
HasUsrBin(line) ==
    \E i \in 1..(Len(line.path) - 1) : line.path[i] = "usr" /\ line.path[i + 1] = "bin"

render_contents_in_component_arch(d, component, arch, tree, component_root, now, fault) ==
    IF fault = "query" THEN TaskResult(FALSE, tree)
    ELSE LET lines == ContentsLines(d, component, arch)
             bin == {l \in lines : HasUsrBin(l)}
             failed == fault = "write"
             Out(enc, ls) == IF failed THEN EmptyFile ELSE Bytes(enc, {}, ls, <<>>)
             t1 == WriteTo(tree, component_root, <<"Contents-", arch, ".", "zst">>,
                           Out("zst", lines), now)
             t2 == WriteTo(t1, component_root, <<"Contents-", arch, ".", "gz">>,
                           Out("gz", lines), now)
             t3 == WriteTo(t2, component_root, <<"Contents-", arch>>,
                           Out("plain", lines), now)
             t4 == WriteTo(t3, component_root, <<"BinContents-", arch>>,
                           Out("plain", bin), now)
         IN  TaskResult(~failed, t4)

RECURSIVE RenderContents(_, _, _, _, _, _, _)
RenderContents(d, component, archs, tree, component_root, now, fault) ==
    IF archs = {} THEN TaskResult(TRUE, tree)
    ELSE LET arch == CHOOSE a \in archs : TRUE
             one == render_contents_in_component_arch(
                        d, component, arch, tree, component_root, now, fault)
             rest == RenderContents(d, component, archs \ {arch}, one.tree,
                                    component_root, now, fault)
         IN  TaskResult(one.ok /\ rest.ok, rest.tree)

\* fault "query" is the failure of the first query, "write" that of the
\* writes of every architecture's task
render_contents_in_component(d, t, tree, now, fault) ==
    IF fault = "query" THEN TaskResult(FALSE, tree)
    ELSE LET records == {r.architecture : r \in {q \in d.pv_repos : q.path = TopicPath(t)}}
             component_root == ComponentRoot(t)
         IN  RenderContents(d, TopicPath(t), records, create_dir_all(tree, component_root),
                            component_root, now, fault)

-----------------------------------------------------------------------------
(* generate.rs: the release files *)

Day == 24 * 3600

\* a date as RFC 2822 text, and text that is no date
Rfc2822(secs) == [date |-> TRUE, secs |-> secs]
NotADate == [date |-> FALSE, secs |-> 0]

\* OffsetDateTime::parse(.., &Rfc2822) and unix_timestamp
ParseRfc2822(text) == IF text.date THEN Ok(text.secs) ELSE Err

\* the rendered InRelease.stpl
InReleaseTemplate(suite, date, valid_until, architectures, components, files, acquire_by_hash) ==
    [suite |-> suite, date |-> date, valid_until |-> Some(valid_until),
     architectures |-> architectures, components |-> components,
     files |-> files, acquire_by_hash |-> acquire_by_hash]

\* parse_valid_date: the text after "Valid-Until: ", when the file has one
parse_valid_date(bytes) ==
    IF bytes.text = <<>> \/ bytes.text[1].valid_until = None THEN Err
    ELSE Ok(bytes.text[1].valid_until[1])

InReleaseName == <<"InRelease">>
ReleaseName == <<"Release">>

scan_single_release_file(tree, branch_root, p) ==
    [path |-> <<StripPrefix(p[1], branch_root), p[2]>>,
     size |-> Length(tree.files[p].content),
     sha256 |-> sha256sum(tree.files[p].content)]

\* the publish filter on file names (the by-hash files are left out too)
Published(name) ==
    ~(name[1] = "." \/ name[1] = "InRelease" \/ name[1] = "DEPRECATED")

scan_release_files(tree, branch_root) ==
    IF branch_root \notin tree.dirs THEN Err
    ELSE Ok({scan_single_release_file(tree, branch_root, p) :
                p \in {q \in DOMAIN tree.files :
                          IsPrefix(branch_root, q[1]) /\ Published(q[2])}})

swap_file_for_acquire_by_hash(tree, branch, path, sha256, now) ==
    LET source_full_path == <<(<<branch>> \o path[1]), path[2]>>
        filename == path[2]
    IN  IF filename[1] = "Contents-" /\ "." \notin Range(filename)
        THEN Ok(RemoveFiles(tree, {source_full_path}))
        ELSE IF source_full_path \in DOMAIN tree.files
        THEN Ok(CopyToByHash(tree, branch, sha256, now))
        ELSE Err

RECURSIVE SwapFiles(_, _, _, _)
SwapFiles(tree, branch, files, now) ==
    IF files = {} THEN TaskResult(TRUE, tree)
    ELSE LET f == CHOOSE x \in files : TRUE
             one == swap_file_for_acquire_by_hash(tree, branch, f.path, f.sha256, now)
         IN  IF one.ok THEN SwapFiles(one.value, branch, files \ {f}, now)
             ELSE TaskResult(FALSE, tree)

swap_for_acquire_by_hash(tree, branch, files, now) ==
    SwapFiles(create_dir_all(tree, ByHashDir(branch)), branch, files, now)

\* sign_message, sign_message_agent: the clear-signed text
Signed(rendered) == Bytes("signed", {}, {}, <<rendered>>)
Unsigned(rendered) == Bytes("plain", {}, {}, <<rendered>>)

\* sign_failed: sign_message or sign_message_agent returns an error
create_release_file(tree, m, ttl, cert, use_acquire_by_hash, now, sign_failed) ==
    LET branch_root == <<m.branch>>
        release_files == scan_release_files(tree, branch_root)
    IN  IF ~release_files.ok THEN TaskResult(FALSE, tree)
        ELSE
        LET system_time == now
            projected_timestamp == system_time + (ttl * 24 * 3600)
            rendered == InReleaseTemplate(m.branch, Rfc2822(system_time),
                                          Rfc2822(projected_timestamp), m.arch, m.comp,
                                          release_files.value, use_acquire_by_hash)
            swapped == IF use_acquire_by_hash
                       THEN swap_for_acquire_by_hash(tree, m.branch, release_files.value, now)
                       ELSE TaskResult(TRUE, tree)
        IN  IF ~swapped.ok THEN swapped
            ELSE IF cert # None /\ sign_failed THEN TaskResult(FALSE, swapped.tree)
            ELSE
            LET name == IF cert # None THEN InReleaseName ELSE ReleaseName
                bytes == IF cert # None THEN Signed(rendered) ELSE Unsigned(rendered)
                written == WriteTo(swapped.tree, branch_root, name, bytes, now)
            IN  IF use_acquire_by_hash
                THEN LET s == swap_file_for_acquire_by_hash(
                                  written, m.branch, <<<<>>, name>>, sha256sum(bytes), now)
                     IN  IF s.ok THEN TaskResult(TRUE, s.value)
                         ELSE TaskResult(FALSE, written)
                ELSE TaskResult(TRUE, written)

\* the branches one after another; failed collects the branches whose
\* create_release_file returned an error (a warning in the log)
RECURSIVE CreateReleaseFiles(_, _, _, _, _, _, _)
CreateReleaseFiles(tree, meta, ttl, cert, use_acquire_by_hash, now, sign_faults) ==
    IF meta = {} THEN [tree |-> tree, failed |-> {}]
    ELSE LET m == CHOOSE x \in meta : TRUE
             one == create_release_file(tree, m, ttl, cert, use_acquire_by_hash, now,
                                        m.branch \in sign_faults)
             rest == CreateReleaseFiles(one.tree, meta \ {m}, ttl, cert,
                                        use_acquire_by_hash, now, sign_faults)
         IN  [tree |-> rest.tree,
              failed |-> rest.failed \cup (IF one.ok THEN {} ELSE {m.branch})]

\* create_release_files returning the error of a branch to its caller
create_release_files_Fatal(tree, release_config, meta, ttl, use_acquire_by_hash, now, cert_fault, sign_faults) ==
    IF release_config.cert # None /\ cert_fault
    THEN [ok |-> FALSE, tree |-> tree, failed |-> {}]
    ELSE LET done == CreateReleaseFiles(tree, meta, ttl, release_config.cert,
                                        use_acquire_by_hash, now, sign_faults)
         IN  [ok |-> done.failed = {}, tree |-> done.tree, failed |-> done.failed]

\* cert_fault: load_certificate returns an error
create_release_files(tree, release_config, meta, ttl, use_acquire_by_hash, now, cert_fault, sign_faults) ==
    IF release_config.cert # None /\ cert_fault
    THEN [ok |-> FALSE, tree |-> tree, failed |-> {}]
    ELSE LET done == CreateReleaseFiles(tree, meta, ttl, release_config.cert,
                                        use_acquire_by_hash, now, sign_faults)
         IN  [ok |-> TRUE, tree |-> done.tree, failed |-> done.failed]

get_branch_metadata(d) ==
    {[branch |-> b,
      arch |-> {r.architecture : r \in {q \in d.pv_repos : q.branch = b}},
      comp |-> {r.component : r \in {q \in d.pv_repos : q.branch = b}}] :
        b \in {r.branch : r \in d.pv_repos}}

render_releases(d, tree, release_config, regenerate_list, use_acquire_by_hash, now, cert_fault, sign_faults) ==
    LET all == get_branch_metadata(d)
        branches == IF release_config.extra_dist_files = None
                    THEN {m \in all : m.branch \in regenerate_list}
                    ELSE all
    IN  create_release_files(tree, release_config, branches, 10,
                             use_acquire_by_hash, now, cert_fault, sign_faults)

\* projected_timestamp >= parsed_timestamp as u64: a timestamp before 1970
\* becomes, as a u64, a number above every time the clock can give
GeAsU64(projected_timestamp, parsed_timestamp) ==
    IF parsed_timestamp < 0 THEN FALSE
    ELSE projected_timestamp >= parsed_timestamp

need_refresh(bytes, now) ==
    LET captured == parse_valid_date(bytes)
    IN  IF ~captured.ok THEN Err
        ELSE LET parsed == ParseRfc2822(captured.value)
             IN  IF ~parsed.ok THEN Err
                 ELSE LET parsed_timestamp == parsed.value
                          system_time == now
                          projected_timestamp == system_time + (24 * 3600)
                      IN  Ok(GeAsU64(projected_timestamp, parsed_timestamp))

Max(S) == CHOOSE x \in S : \A y \in S : y <= x

need_regenerate(d, tree, now) ==
    {branch \in {r.branch : r \in d.pv_repos} :
        LET modified == Max({r.mtime : r \in {q \in d.pv_repos : q.branch = branch}})
            inrelease_path == <<(<<branch>>), InReleaseName>>
        IN  IF inrelease_path \in DOMAIN tree.files
            THEN LET mtime == tree.files[inrelease_path].mtime
                     refresh == need_refresh(tree.files[inrelease_path].content, now)
                 IN  ~(mtime >= modified /\ ~(IF refresh.ok THEN refresh.value ELSE TRUE))
            ELSE TRUE}

-----------------------------------------------------------------------------
(* config.rs *)

\* the certificate of the configuration, loaded by load_certificate
Certificate == [offloaded |-> FALSE]

\* branch gives each [[branch]] section's ttl
Config(cert, acquire_by_hash, ttl, branch) ==
    [cert |-> cert, acquire_by_hash |-> acquire_by_hash, ttl |-> ttl,
     branch |-> branch, extra_dist_files |-> None]

NoBranchTtl == [b \in Branches |-> None]

DefaultConfig == Config(None, None, 10, NoBranchTtl)

convert_branch_description_config(cfg) ==
    [cert |-> cfg.cert, extra_dist_files |-> cfg.extra_dist_files]

convert_branch_refresh_config(cfg) ==
    [default |-> cfg.ttl,
     branch |-> [b \in {x \in DOMAIN cfg.branch : cfg.branch[x] # None} |->
                    cfg.branch[b][1]]]

\* what can go wrong in a command: the stages that return an error
NoFault ==
    [scan |-> FALSE, gc |-> FALSE, maintenance |-> FALSE, discover |-> FALSE,
     regenerate |-> FALSE, packages |-> [t \in Topics |-> "none"],
     contents |-> [t \in Topics |-> "none"], move |-> FALSE, cert |-> FALSE,
     sign |-> {}]

\* history of a command
Command(name, how, at, before, predb, o, logged, F) ==
    [name |-> name, result |-> how, at |-> at, before |-> before, predb |-> predb,
     regen |-> o.regen, tmp |-> o.tmp, moved |-> o.moved, errors |-> o.errors,
     failed |-> o.failed, logged |-> logged, faults |-> F]

Released(how, tree, regen, tmp, moved, errors, failed) ==
    [result |-> how, tree |-> tree, regen |-> regen, tmp |-> tmp, moved |-> moved,
     errors |-> errors, failed |-> failed]

NotReleased(how, tree) == Released(how, tree, {}, EmptyTree, FALSE, {}, {})

NoCommand ==
    Command("none", "ok", 0, EmptyTree, EmptyDb, NotReleased("ok", EmptyTree), {}, NoFault)

-----------------------------------------------------------------------------
(* main.rs: scan_action *)

\* scan_action with the mtime refresh run after the package save
scan_action_stages_RefreshLast ==
    <<"validate", "scan", "ipc", "remove", "repos", "save", "needs_update">>

\* scan_action with the notifications computed after the package save
scan_action_stages_IpcLast ==
    <<"validate", "needs_update", "scan", "remove", "repos", "save", "ipc">>

\* scan_action with the package save run before the repo upsert
scan_action_stages_SaveFirst ==
    <<"validate", "needs_update", "scan", "ipc", "remove", "save", "repos">>

\* the stages of scan_action in the order it runs them
scan_action_stages ==
    <<"validate", "needs_update", "scan", "ipc", "remove", "repos", "save">>

deleted == collect_removed_packages(delete, MirrorRoot)

\* the process has started and nothing has run
Started ==
    /\ disk = [p \in AbsPaths |-> NoFile]
    /\ dirs = {}
    /\ db = EmptyDb
    /\ clock = 0
    /\ notifier = FALSE
    /\ pc = "idle"
    /\ delete = EmptyBag
    /\ scanned = EmptyBag
    /\ needs_update = EmptyBag
    /\ changed = {}
    /\ packages = <<>>
    /\ published = <<>>
    /\ result = "none"
    /\ oplog = <<>>
    /\ pre = EmptyDb
    /\ rescan = FALSE
    /\ dirty = TRUE
    /\ nops = 0
    /\ dists = EmptyTree
    /\ config = DefaultConfig
    /\ cmd = NoCommand
    /\ nruns = 0

Init ==
    /\ Started
    /\ input = <<>>
    /\ output = NotRead

(* The pool tree changes between scans. *)

DiskChange ==
    /\ pc = "idle"
    /\ nops < MaxDiskOps
    /\ nops' = nops + 1
    /\ clock' = clock + 1
    /\ dirty' = TRUE
    /\ UNCHANGED <<db, notifier, pc, locals, published, result, oplog, pre, rescan>>
    /\ UNCHANGED release_vars
    /\ UNCHANGED reader_vars

TopicOf(path) == LET rel == StripPrefix(path, MirrorRoot) IN <<rel[2], rel[3]>>

\* a file is written, or written again with the same bytes: its mtime is the time
WriteFile(path, d) ==
    /\ DiskChange
    /\ disk' = [disk EXCEPT ![path] = File(d, clock')]
    /\ dirs' = dirs \cup {TopicOf(path)}

RemoveFile(path) ==
    /\ DiskChange
    /\ disk[path].kind # "none"
    /\ disk' = [disk EXCEPT ![path] = NoFile]
    /\ dirs' = dirs

MakeDirectory(path) ==
    /\ DiskChange
    /\ disk[path].kind = "none"
    /\ disk' = [disk EXCEPT ![path] = Directory]
    /\ dirs' = dirs \cup {TopicOf(path)}

RemoveTopic(t) ==
    /\ DiskChange
    /\ t \in dirs
    /\ disk' = [path \in AbsPaths |-> IF TopicOf(path) = t THEN NoFile ELSE disk[path]]
    /\ dirs' = dirs \ {t}

(* scan_action: the stages after validate_packages, run on the record
   [db, packages, published, oplog, result] of what the scan has done so
   far; result is "none" while the scan goes on, "ok" or "err" once it has
   returned.  Each stage gives the set of records it can leave. *)

NothingToScan == delete = EmptyBag /\ changed = {}

Returned(s, how) == [s EXCEPT !.result = how]

Logged(s, stage) == [s EXCEPT !.oplog = Append(@, stage)]

RunNeedsUpdate(s) ==
    IF needs_update' # EmptyBag
    THEN {Logged([s EXCEPT !.db = update_unchanged_packages(@, needs_update', MirrorRoot)],
                 "needs_update")}
    ELSE {s}

RunScan(s) ==
    IF NothingToScan'
    THEN {Returned(s, "ok")}
    ELSE {[s EXCEPT !.packages = scan_packages_advanced(disk, walk, MirrorRoot)] :
              walk \in Orders(changed')}

ipc_publish(s) ==
    IF ~notifier'
    THEN {s}
    ELSE {IF removed.ok
          THEN Logged([s EXCEPT !.published = <<removed.value, msgs>>], "ipc")
          ELSE Returned(s, "err") :
              removed \in get_removed_packages_message(s.db, deleted'),
              msgs \in what_changed(s.db, s.packages)}

RunRemove(s) ==
    {IF r.ok THEN Logged([s EXCEPT !.db = r.value], "remove") ELSE Returned(s, "err") :
         r \in remove_packages_by_path(s.db, deleted', clock')}

RunUpdateRepos(s) ==
    {Logged([s EXCEPT !.db = update_changed_repos(@, s.packages, clock')], "repos")}

RunSave(s) ==
    LET saved == save_packages_to_db(s.db, s.packages)
    IN  {IF saved.ok THEN Logged([s EXCEPT !.db = saved.value], "save")
         ELSE Returned(s, "err")}

RunStage(stage, s) ==
    CASE stage = "needs_update" -> RunNeedsUpdate(s)
      [] stage = "scan" -> RunScan(s)
      [] stage = "ipc" -> ipc_publish(s)
      [] stage = "remove" -> RunRemove(s)
      [] stage = "repos" -> RunUpdateRepos(s)
      [] stage = "save" -> RunSave(s)

\* the records the scan can return with, running stages from record s
RECURSIVE RunStages(_, _)
RunStages(stages, s) ==
    IF s.result # "none" THEN {s}
    ELSE IF stages = <<>> THEN {Returned(s, "ok")}
    ELSE UNION {RunStages(Tail(stages), t) : t \in RunStage(Head(stages), s)}

scan_action ==
    /\ pc = "idle"
    /\ clock - nops < MaxScans
    /\ clock' = clock + 1
    /\ notifier' \in BOOLEAN
    /\ LET topics == discover_topics_components(dirs)
           files == collect_all_packages(disk)
           db_packages == list_all_packages(db, topics)
           v == validate_packages(disk, MirrorRoot, db_packages)
       IN  /\ delete' = v[1]
           /\ scanned' = v[2]
           /\ needs_update' = v[3]
           /\ changed' = get_changed_packages(files, v[2])
    /\ pre' = db
    /\ rescan' = ~dirty
    /\ \E s \in RunStages(Tail(scan_action_stages),
                          [db |-> db, packages |-> <<>>, published |-> <<>>,
                           oplog |-> <<>>, result |-> "none"]) :
           /\ db' = s.db
           /\ packages' = s.packages
           /\ published' = s.published
           /\ oplog' = s.oplog
           /\ result' = s.result
           /\ dirty' = IF s.result = "ok" THEN FALSE ELSE dirty
    /\ pc' = "done"
    /\ UNCHANGED <<disk, dirs, nops>>
    /\ UNCHANGED release_vars
    /\ UNCHANGED reader_vars

\* the process has exited; the next run starts from the database alone
ScanReturn ==
    /\ pc = "done"
    /\ pc' = "idle"
    /\ delete' = EmptyBag
    /\ scanned' = EmptyBag
    /\ needs_update' = EmptyBag
    /\ changed' = {}
    /\ packages' = <<>>
    /\ published' = <<>>
    /\ oplog' = <<>>
    /\ pre' = EmptyDb
    /\ rescan' = FALSE
    /\ result' = "none"
    /\ notifier' = FALSE
    /\ UNCHANGED <<disk, dirs, db, clock, dirty, nops>>
    /\ UNCHANGED release_vars
    /\ UNCHANGED reader_vars

(* gc_action *)

RunGc ==
    /\ pc = "idle"
    /\ db' = run_gc(db, dirs)
    /\ UNCHANGED <<disk, dirs, clock, notifier, pc, locals, published, result, oplog,
                   pre, rescan, dirty, nops>>
    /\ UNCHANGED release_vars
    /\ UNCHANGED reader_vars

Next ==
    \/ \E path \in AbsPaths, d \in DebIds : WriteFile(path, d)
    \/ \E path \in AbsPaths : RemoveFile(path)
    \/ \E path \in AbsPaths : MakeDirectory(path)
    \/ \E t \in Topics : RemoveTopic(t)
    \/ scan_action
    \/ ScanReturn
    \/ RunGc

Spec == Init /\ [][Next]_vars

-----------------------------------------------------------------------------
(* main.rs: release_action, gc_action, full_action *)

\* the Packages and the Contents task of every topic, run on the temporary
\* directory: the trees they can leave, with the tasks that returned an error
RECURSIVE RenderTopics(_, _, _, _, _)
RenderTopics(d, topics, tree, now, F) ==
    IF topics = {} THEN {[tree |-> tree, errors |-> {}]}
    ELSE LET t == CHOOSE x \in topics : TRUE
         IN  UNION {
                 LET c == render_contents_in_component(d, t, p.tree, now, F.contents[t])
                     errors == (IF p.ok THEN {} ELSE {<<"packages", TopicPath(t)>>})
                                   \cup (IF c.ok THEN {} ELSE {<<"contents", TopicPath(t)>>})
                 IN  {[tree |-> r.tree, errors |-> r.errors \cup errors] :
                         r \in RenderTopics(d, topics \ {t}, c.tree, now, F)} :
                 p \in render_packages_in_component(d, t, tree, now, F.packages[t])}

\* the outcomes of release_action.  A failed move-over is taken to fail
\* before it has moved a file.
release(d, ds, tree, cfg, now, F) ==
    IF F.discover \/ F.regenerate THEN {NotReleased("err", tree)}
    ELSE LET needs_regenerate == need_regenerate(d, tree, now)
             use_acquire_by_hash ==
                 cfg.acquire_by_hash # None /\ cfg.acquire_by_hash[1] # 0
             tasks == {t \in ds : t[1] \in needs_regenerate}
         IN  {IF r.tree.dirs # {} /\ F.move
              THEN Released("err", tree, needs_regenerate, r.tree, FALSE, r.errors, {})
              ELSE LET new_dists == r.tree.dirs # {}
                       live == IF new_dists THEN move_dir(r.tree, tree) ELSE tree
                       rel == render_releases(d, live, convert_branch_description_config(cfg),
                                              needs_regenerate, use_acquire_by_hash, now,
                                              F.cert, F.sign)
                   IN  Released(IF rel.ok THEN "ok" ELSE "err", rel.tree, needs_regenerate,
                                r.tree, new_dists, r.errors, rel.failed) :
                 r \in RenderTopics(d, tasks, EmptyTree, now, F)}

\* clean_by_hash_files on every directory right under dists
RECURSIVE CleanBranches(_, _, _)
CleanBranches(tree, branches, copies_to_keep) ==
    IF branches = {} THEN {tree}
    ELSE LET b == CHOOSE x \in branches : TRUE
         IN  UNION {CleanBranches(t, branches \ {b}, copies_to_keep) :
                       t \in clean_by_hash_files(tree, b, copies_to_keep)}

Collected(how, d, tree) == [result |-> how, db |-> d, tree |-> tree]

\* the outcomes of gc_action; a failed run_gc is taken to fail at its first
\* statement
gc(d, ds, tree, cfg, F) ==
    IF F.gc THEN {Collected("err", d, tree)}
    ELSE LET swept == run_gc_dists(d, ds, tree)
         IN  IF cfg.acquire_by_hash = None THEN {Collected("ok", run_gc(d, ds), swept)}
             ELSE {Collected("ok", run_gc(d, ds), t) :
                      t \in CleanBranches(swept, {b \in Branches : <<b>> \in swept.dirs},
                                          cfg.acquire_by_hash[1])}

\* log_error! writing nothing
log_error_Quiet(how, stage) == {}

\* what log_error! writes for a result
log_error(how, stage) == IF how = "err" THEN {stage} ELSE {}

\* the commands run one at a time, each at the time the clock then shows
RunCommand ==
    /\ pc = "idle"
    /\ nruns < MaxRuns
    /\ nruns' = nruns + 1
    /\ clock' = clock + 1
    /\ UNCHANGED <<disk, dirs, notifier, pc, locals, published, result, oplog,
                   pre, rescan, dirty, nops, config>>
    /\ UNCHANGED reader_vars

release_action(F) ==
    /\ RunCommand
    /\ \E o \in release(db, dirs, dists, config, clock', F) :
           /\ dists' = o.tree
           /\ cmd' = Command("release", o.result, clock', dists, db, o, {}, F)
    /\ UNCHANGED db

gc_action(F) ==
    /\ RunCommand
    /\ \E g \in gc(db, dirs, dists, config, F) :
           /\ db' = g.db
           /\ dists' = g.tree
           /\ cmd' = Command("gc", g.result, clock', dists, db,
                             NotReleased("ok", g.tree), {}, F)

\* full_action on a pool that is as the last scan left it: the scan changes
\* nothing, or fails
full_action(F) ==
    /\ RunCommand
    /\ IF F.scan
       THEN /\ cmd' = Command("full", "err", clock', dists, db,
                              NotReleased("err", dists), {}, F)
            /\ UNCHANGED <<db, dists>>
       ELSE \E g \in gc(db, dirs, dists, config, F) :
            \E o \in release(g.db, dirs, g.tree, config, clock', F) :
                /\ db' = g.db
                /\ dists' = o.tree
                /\ cmd' = Command("full", "ok", clock', dists, db, o,
                                  log_error(g.result, "garbage collecting")
                                      \cup log_error(IF F.maintenance THEN "err" ELSE "ok",
                                                     "database maintenance")
                                      \cup log_error(o.result, "generating release files"),
                                  F)

-----------------------------------------------------------------------------
(* The mirror between commands: a pool that was scanned, files put into
   dists by hand, and the changes that come from outside *)

DebOf(t) == Join(MirrorRoot, <<"pool", t[1], t[2], "a.deb">>)

SamplePool ==
    [p \in AbsPaths |->
        IF p = DebOf(<<"stable", "main">>) THEN File("a1", 0)
        ELSE IF p = DebOf(<<"topic", "main">>) THEN File("a2", 0)
        ELSE NoFile]

\* the tables after a scan has read the files at paths and saved them
Scanned(d, fs, paths, now) ==
    LET pkgs == scan_packages_advanced(fs, paths, MirrorRoot)
    IN  save_packages_to_db(update_changed_repos(d, pkgs, now), pkgs).value

\* a DEPRECATED notice and a hidden file in dists/stable
SampleDists ==
    LET made == create_dir_all(EmptyTree, <<"stable">>)
    IN  WriteTo(WriteTo(made, <<"stable">>, <<"DEPRECATED">>, EmptyFile, 0),
                <<"stable">>, <<".", "hidden">>, EmptyFile, 0)

\* the pool, scanned at time 1, and no command run yet
PoolInit ==
    /\ disk = SamplePool
    /\ dirs = Topics
    /\ db = Scanned(EmptyDb, SamplePool,
                    <<DebOf(<<"stable", "main">>), DebOf(<<"topic", "main">>)>>, 1)
    /\ clock = 1
    /\ notifier = FALSE
    /\ pc = "idle"
    /\ delete = EmptyBag
    /\ scanned = EmptyBag
    /\ needs_update = EmptyBag
    /\ changed = {}
    /\ packages = <<>>
    /\ published = <<>>
    /\ result = "none"
    /\ oplog = <<>>
    /\ pre = EmptyDb
    /\ rescan = FALSE
    /\ dirty = FALSE
    /\ nops = 0
    /\ cmd = NoCommand
    /\ nruns = 0
    /\ input = <<>>
    /\ output = NotRead

\* before the first release run
ReleaseInit(configs) ==
    /\ PoolInit
    /\ config \in configs
    /\ dists = SampleDists

\* after a first release run, made right after the scan
ReleasedInit(configs) ==
    /\ PoolInit
    /\ config \in configs
    /\ \E o \in release(db, dirs, SampleDists, config, clock, NoFault) : dists = o.tree

Change ==
    /\ pc = "idle"
    /\ nops < MaxChanges
    /\ nops' = nops + 1
    /\ cmd' = NoCommand
    /\ UNCHANGED <<notifier, pc, locals, published, result, oplog, pre, rescan,
                   dirty, config, nruns>>
    /\ UNCHANGED reader_vars

\* time passes
Tick(dt) ==
    /\ Change
    /\ clock' = clock + dt
    /\ UNCHANGED <<disk, dirs, db, dists>>

\* the .deb of a topic is written again, and a scan has saved it
PoolTouch(t) ==
    /\ Change
    /\ t \in dirs
    /\ disk[DebOf(t)].kind = "file"
    /\ clock' = clock + 1
    /\ disk' = [disk EXCEPT ![DebOf(t)] = File(@.deb, clock')]
    /\ db' = Scanned(db, disk', <<DebOf(t)>>, clock')
    /\ UNCHANGED <<dirs, dists>>

\* the .deb of a topic is removed, and a scan has removed its rows
PoolEmpty(t) ==
    /\ Change
    /\ t \in dirs
    /\ disk[DebOf(t)].kind = "file"
    /\ clock' = clock + 1
    /\ disk' = [disk EXCEPT ![DebOf(t)] = NoFile]
    /\ \E r \in remove_packages_by_path(
                    db, SetToBag({StripPrefix(DebOf(t), MirrorRoot)}), clock') :
           r.ok /\ db' = r.value
    /\ UNCHANGED <<dirs, dists>>

\* the directory of a topic is removed from the pool; no scan has run since
PoolVanish(t) ==
    /\ Change
    /\ t \in dirs
    /\ clock' = clock + 1
    /\ disk' = [path \in AbsPaths |-> IF TopicOf(path) = t THEN NoFile ELSE disk[path]]
    /\ dirs' = dirs \ {t}
    /\ UNCHANGED <<db, dists>>

\* an InRelease that p-vector did not write: without a Valid-Until line,
\* with one that is no date, with a date before 1970, with one twelve hours
\* or two days ahead
ForeignKinds == {"absent", "junk", "old", "soon", "late"}

ForeignValidUntil(kind, now) ==
    CASE kind = "absent" -> None
      [] kind = "junk" -> Some(NotADate)
      [] kind = "old" -> Some(Rfc2822(0 - Day))
      [] kind = "soon" -> Some(Rfc2822(now + 12 * 3600))
      [] kind = "late" -> Some(Rfc2822(now + 2 * Day))

Foreign(branch, now, kind) ==
    Signed([InReleaseTemplate(branch, Rfc2822(now), NotADate, {}, {}, {}, FALSE)
               EXCEPT !.valid_until = ForeignValidUntil(kind, now)])

PutInRelease(branch, kind) ==
    /\ Change
    /\ clock' = clock + 1
    /\ dists' = WriteTo(create_dir_all(dists, <<branch>>), <<branch>>, InReleaseName,
                        Foreign(branch, clock', kind), clock')
    /\ UNCHANGED <<disk, dirs, db>>

-----------------------------------------------------------------------------
(* Regeneration: which branches a release run renders again, and until
   when their release files are valid *)

\* just short of the day before a release file of ten days runs out
TickSteps == {9 * Day - 2, 9 * Day - 1}

RegenerateConfigs ==
    {Config(Some(Certificate), None, 10, NoBranchTtl),
     Config(Some(Certificate), None, 7,
            [b \in Branches |-> IF b = "stable" THEN Some(1) ELSE None])}

RegenerateInit == ReleaseInit(RegenerateConfigs)

RegenerateNext ==
    \/ \E dt \in TickSteps : Tick(dt)
    \/ PoolTouch(<<"stable", "main">>)
    \/ \E kind \in ForeignKinds : PutInRelease("stable", kind)
    \/ release_action(NoFault)

RegenerateSpec == RegenerateInit /\ [][RegenerateNext]_vars

-----------------------------------------------------------------------------
(* Release runs with and without a certificate, with and without
   acquire-by-hash, and the stages of a run that can fail *)

ReleaseConfigs ==
    {Config(cert, acquire_by_hash, 10, NoBranchTtl) :
        cert \in {None, Some(Certificate)}, acquire_by_hash \in {None, Some(1)}}

ReleaseFaults ==
    {NoFault,
     [NoFault EXCEPT !.discover = TRUE],
     [NoFault EXCEPT !.packages[<<"stable", "main">>] = "write"],
     [NoFault EXCEPT !.contents[<<"topic", "main">>] = "query"],
     [NoFault EXCEPT !.move = TRUE],
     [NoFault EXCEPT !.cert = TRUE],
     [NoFault EXCEPT !.sign = {"stable"}]}

FullFaults ==
    {NoFault,
     [NoFault EXCEPT !.scan = TRUE],
     [NoFault EXCEPT !.gc = TRUE],
     [NoFault EXCEPT !.maintenance = TRUE],
     [NoFault EXCEPT !.discover = TRUE],
     [NoFault EXCEPT !.move = TRUE]}

ReleaseSpecInit == ReleaseInit(ReleaseConfigs)

ReleaseNext ==
    \/ PoolTouch(<<"stable", "main">>)
    \/ \E F \in ReleaseFaults : release_action(F)
    \/ \E F \in FullFaults : full_action(F)

ReleaseSpec == ReleaseSpecInit /\ [][ReleaseNext]_vars

-----------------------------------------------------------------------------
(* The collector, on a mirror that has been released once *)

GcConfigs ==
    {Config(Some(Certificate), acquire_by_hash, 10, NoBranchTtl) :
        acquire_by_hash \in {None, Some(1)}}

GcFaults == {NoFault, [NoFault EXCEPT !.gc = TRUE]}

GcInit == ReleasedInit(GcConfigs)

GcNext ==
    \/ PoolTouch(<<"topic", "main">>)
    \/ \E t \in Topics : PoolEmpty(t)
    \/ \E t \in Topics : PoolVanish(t)
    \/ release_action(NoFault)
    \/ \E F \in GcFaults : gc_action(F)

GcSpec == GcInit /\ [][GcNext]_vars

-----------------------------------------------------------------------------
(* parser.rs: the control paragraph of a .deb *)

\* the bytes the texts are made of; "V" is a letter of a key such as
\* Valid-Until, "x" any other byte
Byte == {"V", ":", " ", "\t", "\n", "x"}

Texts(n) == UNION {[1..k -> Byte] : k \in 0..n}

\* nom's IResult: Ok((rest, value)) or Err
Taken(rest, value) == [ok |-> TRUE, rest |-> rest, value |-> value]

\* nom take_until: the input up to the first occurrence of pat
take_until(pat, in) ==
    LET at == Find(in, pat)
    IN  IF at = None THEN Err
        ELSE Taken(SubSeq(in, at[1] + 1, Len(in)), SubSeq(in, 1, at[1]))

\* nom tag
tag(pat, in) == IF IsPrefix(pat, in) THEN Taken(StripPrefix(in, pat), pat) ELSE Err

\* nom space0: spaces and tabs, as many as there are; what is left of the input
RECURSIVE space0(_)
space0(in) ==
    IF in # <<>> /\ Head(in) \in {" ", "\t"} THEN space0(Tail(in)) ELSE in

key_name(in) ==
    LET taken == take_until(<<":">>, in)
    IN  IF taken.ok /\ taken.value # <<>> /\ taken.value[1] # "\n" THEN taken ELSE Err

separator(in) ==
    LET colon == tag(<<":">>, in)
    IN  IF colon.ok THEN Taken(space0(colon.rest), <<>>) ELSE Err

single_line(in) == take_until(<<"\n">>, in)

key_value(in) ==
    LET key == key_name(in)
        sep == IF key.ok THEN separator(key.rest) ELSE Err
        line == IF sep.ok THEN single_line(sep.rest) ELSE Err
    IN  IF line.ok THEN Taken(line.rest, <<key.value, line.value>>) ELSE Err

\* many1(terminated(key_value, tag("\n"))): the pairs read before the first
\* failure, and an error when the first pair fails
Cons(value, more) == Taken(more.rest, <<value>> \o more.value)

RECURSIVE many0_key_value(_)
many0_key_value(in) ==
    LET pair == key_value(in)
        end == IF pair.ok THEN tag(<<"\n">>, pair.rest) ELSE Err
    IN  IF ~end.ok THEN Taken(in, <<>>)
        ELSE Cons(pair.value, many0_key_value(end.rest))

single_package(in) ==
    LET pairs == many0_key_value(in)
    IN  IF pairs.value = <<>> THEN Err ELSE pairs

\* HashMap::insert, pair after pair: the last value of a key stays
MapOf(pairs) ==
    [key \in {pairs[i][1] : i \in DOMAIN pairs} |->
        LET last == CHOOSE i \in DOMAIN pairs :
                        /\ pairs[i][1] = key
                        /\ \A j \in DOMAIN pairs : pairs[j][1] = key => j <= i
        IN  pairs[last][2]]

single_package_map(in) ==
    LET res == single_package(in)
    IN  IF res.ok THEN Taken(res.rest, MapOf(res.value)) ELSE Err

-----------------------------------------------------------------------------
(* The readers, each run once on what it is given *)

ReaderInit(inputs) ==
    /\ Started
    /\ input \in inputs
    /\ output = NotRead

Read(by, res) ==
    /\ output = NotRead
    /\ output' = [by |-> by, result |-> res]
    /\ UNCHANGED <<disk, dirs, db, clock, notifier, pc, locals, published, result, oplog,
                   pre, rescan, dirty, nops, dists, config, cmd, nruns, input>>

ControlInit == ReaderInit(Texts(MaxLen))

ReadControl == Read("single_package_map", single_package_map(input))

ControlSpec == ControlInit /\ [][ReadControl]_vars

\* generate.rs: the Valid-Until of a release text, byte by byte; "V" stands
\* for the word Valid-Until
match_valid_until_NoSpace(in) == tag(<<"V", ":">>, in)

match_valid_until(in) == tag(<<"V", ":", " ">>, in)

skip_header(in) == take_until(<<"V", ":">>, in)

skip_other(in) ==
    LET header == skip_header(in)
    IN  IF header.ok THEN match_valid_until(header.rest) ELSE Err

parse_valid_date_text(in) ==
    LET other == skip_other(in)
    IN  IF other.ok THEN take_until(<<"\n">>, other.rest) ELSE Err

\* the rendered InRelease.stpl around its Valid-Until line: the header lines
\* before it (none of them holds "Valid-Until:") and the lines after it
RenderedRelease(valid_until) ==
    <<"x", "\n", "V", ":", " ">> \o valid_until \o <<"\n", "x", ":", " ", "x", "\n">>

\* release texts: no tabs in them
ReleaseTexts(n) == UNION {[1..k -> Byte \ {"\t"}] : k \in 0..n}

ValidUntilInit == ReaderInit(ReleaseTexts(MaxText))

ReadValidUntil == Read("parse_valid_date", parse_valid_date_text(input))

\* a release file is rendered with the input as its Valid-Until and read back
ReadRendered ==
    /\ "\n" \notin Range(input)
    /\ Read("rendered", parse_valid_date_text(RenderedRelease(input)))

ValidUntilNext == ReadValidUntil \/ ReadRendered

ValidUntilSpec == ValidUntilInit /\ [][ValidUntilNext]_vars

\* the names an ELF file can ask for (DT_NEEDED) or a library file can have
SoNames(n) == UNION {[1..k -> {".", "s", "o", "1"}] : k \in 1..n}

SoNameInit == ReaderInit(SoNames(MaxLen))

ReadSoName == Read("split_so_name", split_so_name(input))

SoNameSpec == SoNameInit /\ [][ReadSoName]_vars

\* the paths, relative to the mirror root, get_branch_name can be given
PathsTo(n) == UNION {[1..k -> {"pool", "stable", "..", "a.deb"}] : k \in 0..n}

BranchNameInit == ReaderInit(PathsTo(MaxDepth))

ReadBranchName == Read("get_branch_name", get_branch_name(input))

BranchNameSpec == BranchNameInit /\ [][ReadBranchName]_vars

\* scan/dbscan.rs: the members of a .deb and the fields of its control record
RequiredFields ==
    {"Package", "Version", "Section", "Description", "Architecture", "Installed-Size",
     "Maintainer"}

ControlFields == RequiredFields \cup {"X-AOSC-Features"}

\* an ar member: which tar it is, by the start of its name, and its extension
Members ==
    {[tar |-> "control.tar", ext |-> ".xz"], [tar |-> "control.tar", ext |-> ".zst"],
     [tar |-> "data.tar", ext |-> ".gz"], [tar |-> "debian-binary", ext |-> ""]}

Archives(n) ==
    {[members |-> members, control |-> control] :
        members \in UNION {[1..k -> Members] : k \in 0..n},
        control \in SUBSET ControlFields}

determine_format(ext) == IF ext \in {".xz", ".gz"} THEN Ok(ext) ELSE Err

\* the seven must_have! and the optional features: DebMeta with every field required
DebMeta_FeaturesRequired(control) ==
    IF ControlFields \subseteq control THEN Ok([features |-> Some("core")]) ELSE Err

\* the seven must_have! and the optional features
DebMeta(control) ==
    IF RequiredFields \subseteq control
    THEN Ok([features |-> IF "X-AOSC-Features" \in control THEN Some("core") ELSE None])
    ELSE Err

\* one round of the loop over the members, from what the rounds before left
ReadMember(read, member, control) ==
    IF ~read.ok THEN read
    ELSE IF member.tar = "control.tar"
    THEN IF determine_format(member.ext).ok /\ DebMeta(control).ok
         THEN [read EXCEPT !.metadata = Some(DebMeta(control).value)]
         ELSE [read EXCEPT !.ok = FALSE]
    ELSE IF member.tar = "data.tar"
    THEN IF determine_format(member.ext).ok THEN [read EXCEPT !.files = Some("files")]
         ELSE [read EXCEPT !.ok = FALSE]
    ELSE read

RECURSIVE ReadMembers(_, _, _)
ReadMembers(read, members, control) ==
    IF members = <<>> THEN read
    ELSE ReadMembers(ReadMember(read, Head(members), control), Tail(members), control)

\* open_deb_advanced on the members of an archive
open_deb_members(archive) ==
    LET read == ReadMembers([ok |-> TRUE, metadata |-> None, files |-> None],
                            archive.members, archive.control)
    IN  IF ~read.ok \/ read.metadata = None \/ read.files = None THEN Err
        ELSE Ok([deb |-> read.metadata[1], contents |-> read.files[1]])

DebInit == ReaderInit(Archives(MaxMembers))

ReadDeb == Read("open_deb_advanced", open_deb_members(input))

DebSpec == DebInit /\ [][ReadDeb]_vars

-----------------------------------------------------------------------------
(* Scans of a pool that was scanned before *)

\* the pool, written and scanned at time 0, and a process that has just started
RescanInit ==
    /\ disk = SamplePool
    /\ dirs = Topics
    /\ db = Scanned(EmptyDb, SamplePool,
                    <<DebOf(<<"stable", "main">>), DebOf(<<"topic", "main">>)>>, 0)
    /\ clock = 0
    /\ notifier = FALSE
    /\ pc = "idle"
    /\ delete = EmptyBag
    /\ scanned = EmptyBag
    /\ needs_update = EmptyBag
    /\ changed = {}
    /\ packages = <<>>
    /\ published = <<>>
    /\ result = "none"
    /\ oplog = <<>>
    /\ pre = EmptyDb
    /\ rescan = FALSE
    /\ dirty = FALSE
    /\ nops = 0
    /\ dists = EmptyTree
    /\ config = DefaultConfig
    /\ cmd = NoCommand
    /\ nruns = 0
    /\ input = <<>>
    /\ output = NotRead

RescanNext ==
    \/ \E path \in AbsPaths, d \in DebIds : WriteFile(path, d)
    \/ \E path \in AbsPaths : RemoveFile(path)
    \/ scan_action
    \/ ScanReturn

RescanSpec == RescanInit /\ [][RescanNext]_vars

-----------------------------------------------------------------------------
(* scan/dbscan.rs: validate_packages, one worker of the par_iter at a time.
   input is the slice of records, output.result what the workers that have
   finished returned, by index; delete and needs_update are the two queues,
   in the order of the pushes; scanned is the collected vector. *)

\* the closure of filter_map with the size test pushing into to_remove
validate_package_RemoveResized(fs, root, p) ==
    LET path == Join(root, p.filename)
        how == Outcome(fs, root, p)
    IN  [to_remove |-> IF how \in {"remove", "rescan"} THEN <<path>> ELSE <<>>,
         needs_update |-> IF how = "update" THEN <<<<path, Entry(fs, path).mtime>>>> ELSE <<>>,
         returned |-> IF how \in {"scanned", "update"} THEN Some(path) ELSE None]

\* the closure of filter_map on record p: what it pushes and what it returns
validate_package(fs, root, p) ==
    LET path == Join(root, p.filename)
        how == Outcome(fs, root, p)
    IN  [to_remove |-> IF how = "remove" THEN <<path>> ELSE <<>>,
         needs_update |-> IF how = "update" THEN <<<<path, Entry(fs, path).mtime>>>> ELSE <<>>,
         returned |-> IF how \in {"scanned", "update"} THEN Some(path) ELSE None]

\* the records list_all_packages can hand over: a row of each .deb at each path
PVPackages ==
    {[package |-> Deb(d).name, version |-> Deb(d).version, repo |-> "amd64/stable",
      architecture |-> Deb(d).arch, filename |-> f, size |-> Deb(d).size,
      sha256 |-> Deb(d).sha256, mtime |-> 0] : d \in {"a1", "a1r", "a2"}, f \in {P1, P2}}

Slices(n) == UNION {[1..k -> PVPackages] : k \in 0..n}

\* pools for these records: there, touched, gone, or a directory in its place
ValidateDisks ==
    {[p \in AbsPaths |-> IF p = Join(MirrorRoot, P1) THEN one
                         ELSE IF p = Join(MirrorRoot, P2) THEN two ELSE NoFile] :
        one \in {File("a1", 0), File("a1", 1), NoFile, Directory},
        two \in {File("a2", 0), File("a2", 1), NoFile}}

WorkersDone == DOMAIN output.result

ValidateInit ==
    /\ disk \in ValidateDisks
    /\ input \in Slices(MaxRecords)
    /\ output = [by |-> "par_iter", result |-> <<>>]
    /\ delete = <<>>
    /\ needs_update = <<>>
    /\ scanned = <<>>
    /\ pc = "idle"
    /\ dirs = Topics
    /\ db = EmptyDb
    /\ clock = 1
    /\ notifier = FALSE
    /\ changed = {}
    /\ packages = <<>>
    /\ published = <<>>
    /\ result = "none"
    /\ oplog = <<>>
    /\ pre = EmptyDb
    /\ rescan = FALSE
    /\ dirty = FALSE
    /\ nops = 0
    /\ dists = EmptyTree
    /\ config = DefaultConfig
    /\ cmd = NoCommand
    /\ nruns = 0

ValidateFrame == UNCHANGED <<disk, dirs, db, clock, notifier, changed, packages, published, result, oplog, pre, rescan, dirty, nops, dists, config, cmd, nruns, input>>

\* a worker takes a record no worker has taken; a push is one atomic step
filter_map(i) ==
    /\ pc = "idle"
    /\ i \in (1..Len(input)) \ WorkersDone
    /\ LET w == validate_package(disk, MirrorRoot, input[i])
       IN  /\ delete' = delete \o w.to_remove
           /\ needs_update' = needs_update \o w.needs_update
           /\ output' = [output EXCEPT !.result = (i :> w.returned) @@ @]
    /\ UNCHANGED <<pc, scanned>>
    /\ ValidateFrame

\* collect() returns when every worker has finished, results in slice order
collect ==
    /\ pc = "idle"
    /\ WorkersDone = 1..Len(input)
    /\ scanned' = Concat(output.result)
    /\ pc' = "validated"
    /\ UNCHANGED <<delete, needs_update, output>>
    /\ ValidateFrame

\* scan_action pops the two queues it got back
DrainQueues ==
    /\ pc = "validated"
    /\ delete' = <<>>
    /\ needs_update' = <<>>
    /\ pc' = "drained"
    /\ UNCHANGED <<scanned, output>>
    /\ ValidateFrame

ValidateNext ==
    \/ \E i \in 1..MaxRecords : filter_map(i)
    \/ collect
    \/ DrainQueues

ValidateSpec == ValidateInit /\ [][ValidateNext]_vars

-----------------------------------------------------------------------------
(* Claims *)

Finished == pc = "done" /\ result = "ok"

Saved == Finished /\ \E i \in 1..Len(oplog) : oplog[i] = "save"

\* the filename the main table held for the key of packages[i] when
\* packages[i] was saved: that of the package saved before it in the batch
\* with the same key, else that of the row the batch found and did not remove
PreviousFilename(i) ==
    LET key == Key(PackageRow(packages[i]))
        before == {j \in 1..(i - 1) : Key(PackageRow(packages[j])) = key}
        found == {r \in pre.pv_packages :
                     Key(r) = key /\ r.filename \notin BagToSet(deleted)}
    IN  IF before # {}
        THEN Some(packages[CHOOSE j \in before : \A k \in before : k <= j].filename)
        ELSE IF found # {} THEN Some((CHOOSE r \in found : TRUE).filename)
        ELSE None

LastOfKey(i) ==
    \A j \in (i + 1)..Len(packages) :
        Key(PackageRow(packages[j])) # Key(PackageRow(packages[i]))

\* C1: when a second .deb with another filename is saved for a key that the
\* main table already holds, afterwards the main row of the key carries the
\* second filename and the duplicate table holds a row of the key that carries
\* the first filename.
C1_DuplicateHoldsLoser ==
    Saved =>
        \A i \in 1..Len(packages) :
            LET first == PreviousFilename(i)
                key == Key(PackageRow(packages[i]))
            IN  (LastOfKey(i) /\ first # None /\ first[1] # packages[i].filename) =>
                    /\ \E m \in db.pv_packages :
                           Key(m) = key /\ m.filename = packages[i].filename
                    /\ \E dup \in db.pv_package_duplicate :
                           Key(dup) = key /\ dup.filename = first[1]

\* C2: no row of the duplicate table has the key and the filename of a row
\* of the main table.
C2_MainOrDuplicate ==
    \A m \in db.pv_packages, dup \in db.pv_package_duplicate :
        ~(Key(m) = Key(dup) /\ m.filename = dup.filename)

\* C3: no two rows of the main table have the same filename.
C3_FilenameUnique ==
    \A m, n \in db.pv_packages : m.filename = n.filename => m = n

PackageTables(d) ==
    <<d.pv_packages, d.pv_package_duplicate, d.pv_package_files,
      d.pv_package_dependencies, d.pv_package_sodep>>

\* C4: a scan of a pool tree that has not changed since the last successful
\* scan leaves every package, duplicate, file, dependency and sodep row as it
\* was.
C4_RescanChangesNothing ==
    (Finished /\ rescan) => PackageTables(db) = PackageTables(pre)

Position(op) == {i \in 1..Len(oplog) : oplog[i] = op}

Before(a, b) == \A i \in Position(a), j \in Position(b) : i < j

C6_MessagesSeeOldRows ==
    published # <<>> =>
        /\ Before("ipc", "remove")
        /\ Before("ipc", "repos")
        /\ Before("ipc", "save")
        /\ Ok(published[1]) \in get_removed_packages_message(pre, deleted)
        /\ published[2] \in what_changed(pre, packages)

C6_Witness ==
    /\ Finished
    /\ published # <<>>
    /\ published[1] # EmptyBag
    /\ published[2] # <<>>
    /\ Position("remove") # {}
    /\ Position("save") # {}
    /\ PackageTables(db) # PackageTables(pre)

\* what C7 says what_changed emits for package p, as <<>> or <<[pkg, method,
\* from_ver]>>, given the rows of the same (name, repo) the batch found
Claimed(p) ==
    LET rows == {r \in pre.pv_packages :
                    r.package = p.deb.name /\ r.repo = RepoName(p)}
        highest == {r \in rows : \A q \in rows :
                       comparable_dpkgver(q.version) <= comparable_dpkgver(r.version)}
        Msg(method, from_ver) ==
            <<[pkg |-> p.deb.name, method |-> method, from_ver |-> from_ver]>>
    IN  IF rows = {} THEN {Msg("+", None)}
        ELSE {IF comparable_dpkgver(p.deb.version) > comparable_dpkgver(r.version)
              THEN Msg("^", Some(r.version))
              ELSE IF p.deb.version = r.version THEN Msg("*", Some(r.version))
              ELSE <<>> : r \in highest}

RECURSIVE ClaimedAll(_)
ClaimedAll(pkgs) ==
    IF pkgs = <<>> THEN {<<>>}
    ELSE {h \o t : h \in Claimed(Head(pkgs)), t \in ClaimedAll(Tail(pkgs))}

\* C7: for every scanned package what_changed emits at most one message,
\* chosen against the highest-versioned row of the same (name, repo): "+"
\* with no from_ver when there is none, "^" when the scanned version is
\* greater, "*" when it is the same, nothing when it is older.
C7_WhatChanged ==
    published # <<>> =>
        [i \in 1..Len(published[2]) |->
            [pkg |-> published[2][i].pkg, method |-> published[2][i].method,
             from_ver |-> published[2][i].from_ver]] \in ClaimedAll(packages)

\* an older package emits nothing while another package of the batch is reported
C7_Witness ==
    /\ published # <<>>
    /\ Len(published[2]) >= 1
    /\ Len(published[2]) < Len(packages)

\* the records the scan got from list_all_packages
Listed == list_all_packages(pre, discover_topics_components(dirs))

\* C8: validate_packages gives every database record exactly one outcome.
\* No regular file at its path: to_remove, not scanned.  A file with the
\* size and mtime of the record: scanned only.  A file with the size of the
\* record, another mtime and the recorded sha256: scanned and (path, new
\* mtime) in needs_update.  Anything else: neither scanned nor removed.
C8_Outcomes ==
    pc # "idle" =>
        LET recs == BagToSet(Listed)
            Count(S) == SumOver(S, Listed)
            At(p) == Entry(disk, Join(MirrorRoot, p.filename))
            Absent(p) == At(p).kind # "file"
            SameSize(p) == ~Absent(p) /\ Deb(At(p).deb).size = p.size
            Same(p) == SameSize(p) /\ At(p).mtime = p.mtime
            Touched(p) == /\ SameSize(p)
                          /\ At(p).mtime # p.mtime
                          /\ Deb(At(p).deb).sha256 = p.sha256
            Here(q) == {p \in recs : Join(MirrorRoot, p.filename) = q}
        IN  /\ BagToSet(delete) \cup BagToSet(scanned) \subseteq AbsPaths
            /\ BagToSet(needs_update) \subseteq AbsPaths \X (0..clock)
            /\ \A q \in AbsPaths :
                 /\ CopiesIn(q, delete) = Count({p \in Here(q) : Absent(p)})
                 /\ CopiesIn(q, scanned) = Count({p \in Here(q) : Same(p) \/ Touched(p)})
                 /\ \A m \in 0..clock :
                        CopiesIn(<<q, m>>, needs_update) =
                            Count({p \in Here(q) : Touched(p) /\ At(p).mtime = m})

\* one record is refreshed, another is only marked scanned
C8_Witness ==
    /\ needs_update # EmptyBag
    /\ \E q \in BagToSet(scanned) : \A u \in BagToSet(needs_update) : u[1] # q

\* the tables with the mtime column of pv_packages left out
ExceptPackageMtime(d) ==
    [d EXCEPT !.pv_packages = {[r EXCEPT !.mtime = 0] : r \in @}]

\* C9: changed is the discovered .deb paths that are not in the scanned set;
\* when to_remove and changed are both empty the scan exits having published
\* nothing and changed no row but for the mtime refresh of needs-update.
C9_NothingToScan ==
    pc # "idle" =>
        /\ changed = collect_all_packages(disk) \ BagToSet(scanned)
        /\ NothingToScan =>
               /\ result = "ok"
               /\ oplog \in {<<>>, <<"needs_update">>}
               /\ published = <<>>
               /\ ExceptPackageMtime(db) = ExceptPackageMtime(pre)
               /\ needs_update = EmptyBag => db = pre

C9_Witness ==
    /\ Finished
    /\ NothingToScan
    /\ collect_all_packages(disk) # {}
    /\ db # pre

\* C10: when the file of a main-table package is gone from its pool
\* directory, the scan (with a notifier) emits one "-" message with comp =
\* "<branch>-<component>", the name, the architecture and from_ver = the
\* version of the package, and once the scan is over no main-table row has
\* that filename.
C10_RemovedIsReported ==
    (pc = "done" /\ notifier) =>
        \A r \in pre.pv_packages :
            LET path == Join(MirrorRoot, r.filename)
                msg == PVMessage(r.filename[2] \o "-" \o r.filename[3], r.package,
                                 r.architecture, "-", Some(r.version), None)
            IN  (Entry(disk, path).kind = "none" /\ TopicOf(path) \in dirs) =>
                    /\ published # <<>>
                    /\ CopiesIn(msg, published[1]) = 1
                    /\ \A m \in db.pv_packages : m.filename # r.filename

\* C11: in every state reached by scans and GC runs each main-table package
\* row's repo names an existing repo row; in a batch the repo upsert is
\* committed before the package save.
C11_PackageRepoExists ==
    /\ \A m \in db.pv_packages : \E r \in db.pv_repos : r.name = m.repo
    /\ Before("repos", "save")

\* a batch created the repo row of the package it saved
C11_Witness ==
    /\ Saved
    /\ pre.pv_repos = {}
    /\ \E i \in 1..Len(packages) : \E m \in db.pv_packages :
           /\ m.filename = packages[i].filename
           /\ \E r \in db.pv_repos : r.name = m.repo

\* a file the walk found that the Deb Reader cannot parse
BadDeb(path) == disk[path].kind = "file" /\ ~Deb(disk[path].deb).ok

GoodDeb(path) == disk[path].kind = "file" /\ Deb(disk[path].deb).ok

-----------------------------------------------------------------------------
(* Claims on the release renderer and the collector *)

InReleaseOf(branch) == <<(<<branch>>), InReleaseName>>

ReleaseOf(branch) == <<(<<branch>>), ReleaseName>>

\* the command that has just run was a release run that came to its end
ReleaseDone == cmd.name = "release" /\ cmd.result = "ok"

\* what the claim gives as the reasons to render a branch again, at time now
C12_Reasons(branch, now) ==
    LET modified == Max({r.mtime : r \in {q \in db.pv_repos : q.branch = branch}})
    IN  \/ InReleaseOf(branch) \notin DOMAIN dists.files
        \/ LET file == dists.files[InReleaseOf(branch)]
               text == file.content.text
           IN  \/ modified > file.mtime
               \/ text = <<>>
               \/ text[1].valid_until = None
               \/ ~text[1].valid_until[1].date
               \/ text[1].valid_until[1].secs <= now + Day

\* C12: need_regenerate selects a branch of the database exactly when its
\* InRelease is missing, or a repo of the branch has an mtime later than the
\* file's, or the file's Valid-Until is no later than a day from now, or it
\* has no Valid-Until that can be read
C12_NeedRegenerate ==
    \A branch \in {r.branch : r \in db.pv_repos} :
        branch \in need_regenerate(db, dists, clock + 1) <=> C12_Reasons(branch, clock + 1)

\* the time to live the configuration gives a branch, in days
ConfiguredTtl(branch) ==
    LET refresh == convert_branch_refresh_config(config)
    IN  IF branch \in DOMAIN refresh.branch THEN refresh.branch[branch]
        ELSE refresh.default

\* C19: the Valid-Until of a release file that a release run has written is
\* the time of the run plus the ttl of the configuration, in days: the ttl of
\* the branch's section when it has one, the global ttl otherwise
C19_ValidUntilFromConfig ==
    ReleaseDone =>
        \A branch \in cmd.regen \ cmd.failed :
            dists.files[InReleaseOf(branch)].content.text[1].valid_until =
                Some(Rfc2822(cmd.at + ConfiguredTtl(branch) * Day))

\* the release file that create_release_file writes for a branch
ReleaseFileOf(branch) ==
    IF config.cert # None THEN InReleaseOf(branch) ELSE ReleaseOf(branch)

\* C13: after create_release_file has finished for a branch, the files block
\* of the release file it wrote lists every file under dists/<branch> that
\* passes the publish filter, and every entry of the block names a file that
\* exists with the listed size and sha256
C13_ReleaseListsFiles ==
    ReleaseDone =>
        \A branch \in cmd.regen \ cmd.failed :
            LET listed == dists.files[ReleaseFileOf(branch)].content.text[1].files
            IN  /\ \A p \in DOMAIN dists.files :
                       IsPrefix(<<branch>>, p[1]) /\ Published(p[2]) =>
                           \E f \in listed : f.path = <<StripPrefix(p[1], <<branch>>), p[2]>>
                /\ \A f \in listed :
                       LET p == <<(<<branch>>) \o f.path[1], f.path[2]>>
                       IN  /\ p \in DOMAIN dists.files
                           /\ Length(dists.files[p].content) = f.size
                           /\ sha256sum(dists.files[p].content) = f.sha256

\* a release run got as far as render_releases
Rendered ==
    /\ cmd.name = "release"
    /\ ~cmd.faults.discover
    /\ ~cmd.faults.regenerate
    /\ ~(cmd.faults.move /\ cmd.tmp.dirs # {})

\* the file at path p is as it was before the command
Untouched(p) ==
    IF p \in DOMAIN cmd.before.files
    THEN p \in DOMAIN dists.files /\ dists.files[p] = cmd.before.files[p]
    ELSE p \notin DOMAIN dists.files

\* C14 as claimed: when a certificate is configured and the signing of a
\* branch's release text fails, release generation returns an error; an
\* unsigned Release is written only without a certificate
C14_SignFailureFatal ==
    /\ (Rendered /\ config.cert # None /\ cmd.faults.sign \cap cmd.failed # {}) =>
           cmd.result = "err"
    /\ \A branch \in Branches :
           ReleaseOf(branch) \in DOMAIN dists.files => config.cert = None

\* C14: when a certificate is configured and the signing of a branch's
\* release text fails, create_release_file returns an error and writes no
\* release file for the branch, which keeps the InRelease it had; the error
\* is logged and release generation goes on with the other branches and
\* returns success.  Only a certificate that cannot be loaded makes release
\* generation return an error.  An unsigned Release is written only without
\* a certificate.
C14_SignFailureLogged ==
    /\ (Rendered /\ config.cert # None) =>
           /\ cmd.result = (IF cmd.faults.cert THEN "err" ELSE "ok")
           /\ ~cmd.faults.cert =>
                  \A branch \in cmd.regen :
                      IF branch \in cmd.faults.sign
                      THEN /\ branch \in cmd.failed
                           /\ Untouched(InReleaseOf(branch))
                      ELSE /\ branch \notin cmd.failed
                           /\ dists.files[InReleaseOf(branch)].mtime = cmd.at
                           /\ dists.files[InReleaseOf(branch)].content.enc = "signed"
    /\ \A branch \in Branches :
           ReleaseOf(branch) \in DOMAIN dists.files => config.cert = None

C14_Witness ==
    /\ Rendered
    /\ config.cert # None
    /\ cmd.result = "ok"
    /\ "stable" \in cmd.faults.sign \cap cmd.regen \cap cmd.failed
    /\ "topic" \in cmd.regen \ cmd.failed

\* the release stage of the command returns an error
ReleaseFails ==
    \/ cmd.faults.discover
    \/ cmd.faults.regenerate
    \/ cmd.faults.move /\ cmd.tmp.dirs # {}
    \/ cmd.faults.cert /\ config.cert # None

\* C18 as claimed: a failed scan, a failed topic discovery and a failed
\* move-over make the command that met them return an error, full included
C18_BatchFailureFatal ==
    /\ (cmd.name = "release" /\ ReleaseFails) => cmd.result = "err"
    /\ (cmd.name = "full" /\ (cmd.faults.scan \/ ReleaseFails)) => cmd.result = "err"

\* C18: a failed topic discovery or move-over makes release_action return
\* an error, and a failed run_gc makes gc_action return one.  full_action
\* returns an error only when its scan fails: the errors of its collector,
\* maintenance and release stages are logged, each stage runs whatever
\* became of the one before, and full_action returns success.
C18_FullLogsFailures ==
    /\ cmd.name = "release" => (cmd.result = "err" <=> ReleaseFails)
    /\ cmd.name = "gc" => (cmd.result = "err" <=> cmd.faults.gc)
    /\ cmd.name = "full" =>
           /\ cmd.result = "err" <=> cmd.faults.scan
           /\ ~cmd.faults.scan =>
                  /\ "generating release files" \in cmd.logged <=> ReleaseFails
                  /\ "garbage collecting" \in cmd.logged <=> cmd.faults.gc
                  /\ "database maintenance" \in cmd.logged <=> cmd.faults.maintenance
                  /\ (~ReleaseFails /\ config.cert # None) =>
                         \A branch \in cmd.regen :
                             dists.files[InReleaseOf(branch)].mtime = cmd.at

C18_Witness ==
    /\ cmd.name = "full"
    /\ cmd.faults.discover
    /\ cmd.result = "ok"
    /\ cmd.logged = {"generating release files"}

\* C20: release_action moves the temporary dists tree over the live tree
\* only when every Packages and Contents task has succeeded; after a task
\* has failed the live tree holds nothing of what the tasks wrote
C20_MoveOnlyOnSuccess ==
    (cmd.name = "release" /\ cmd.errors # {}) =>
        /\ ~cmd.moved
        /\ \A p \in DOMAIN cmd.tmp.files : Untouched(p)

\* the gc command that has just run came to its end
GcDone == cmd.name = "gc" /\ cmd.result = "ok"

\* the files of a branch outside its by-hash/SHA256 directory
SnapshotFiles(tree, branch) == {p \in DOMAIN tree.files : IsPrefix(<<branch>>, p[1])}

\* C15: clean_by_hash_files with copies_to_keep >= 0 keeps, in the
\* by-hash/SHA256 directory of a branch, keep = (files of the branch outside
\* by-hash) * copies_to_keep files: a directory with at most keep files is
\* left as it is, and of a larger one the keep files with the latest mtimes
\* remain and the older ones are deleted
C15_KeepsNewest ==
    (GcDone /\ config.acquire_by_hash # None /\ config.acquire_by_hash[1] >= 0) =>
        \A branch \in {b \in Branches : ByHashDir(b) \in dists.dirs} :
            LET keep == Cardinality(SnapshotFiles(dists, branch)) * config.acquire_by_hash[1]
                had == cmd.before.byhash[branch]
                has == dists.byhash[branch]
            IN  IF Cardinality(had) <= keep THEN has = had
                ELSE /\ has \subseteq had
                     /\ Cardinality(has) = keep
                     /\ \A kept \in has, gone \in had \ has : kept.mtime >= gone.mtime

HasPackages(d, r) == \E p \in d.pv_packages : p.repo = r.name

PoolDirExists(path) == \E t \in dirs : TopicPath(t) = path

\* nothing is left of dists/<branch>/<component>
NoDistsTree(tree, r) ==
    /\ <<r.branch, r.component>> \notin tree.dirs
    /\ ~\E p \in DOMAIN tree.files : IsPrefix(<<r.branch, r.component>>, p[1])

-----------------------------------------------------------------------------
(* Claims on the readers *)

\* the length of the first line of a text
LineEnd(text) == IF Find(text, <<"\n">>) = None THEN Len(text) ELSE Find(text, <<"\n">>)[1]

\* the lines of a text, the last one with or without its newline
RECURSIVE Lines(_)
Lines(text) ==
    IF text = <<>> THEN <<>>
    ELSE <<SubSeq(text, 1, LineEnd(text))>>
             \o Lines(SubSeq(text, LineEnd(text) + 2, Len(text)))

\* the lines before the first blank line
RECURSIVE RecordLines(_)
RecordLines(lines) ==
    IF lines = <<>> \/ Head(lines) = <<>> THEN <<>>
    ELSE <<Head(lines)>> \o RecordLines(Tail(lines))

\* the key and the value of a line "key:[ \t]*value"
LineField(line) ==
    LET colon == Find(line, <<":">>)[1]
    IN  <<SubSeq(line, 1, colon), space0(SubSeq(line, colon + 2, Len(line)))>>

\* a paragraph of fields: at least one line, a key and a colon on each
IsParagraph(lines) ==
    /\ lines # <<>>
    /\ \A i \in DOMAIN lines : Find(lines[i], <<":">>) \notin {None, Some(0)}

\* C21: single_package_map returns one entry per line of the record, the key
\* the bytes before the first ':' of the line (so no key holds a newline),
\* the value the rest of the line after the ':' and the spaces and tabs that
\* follow it; it stops at the first blank line, and a paragraph without a
\* terminating blank line yields all its fields
C21_LineOriented ==
    output.by = "single_package_map" =>
        LET lines == RecordLines(Lines(input))
        IN  /\ output.result.ok =>
                   \A key \in DOMAIN output.result.value : "\n" \notin Range(key)
            /\ IsParagraph(lines) =>
                   /\ output.result.ok
                   /\ output.result.value
                          = MapOf([i \in DOMAIN lines |-> LineField(lines[i])])

\* C22: for every string stored as a sodep row split_so_name splits at the
\* first ".so": so_name is the prefix up to and including it, so it ends
\* with ".so"; so_version is absent iff nothing follows that ".so", and is
\* the whole remainder otherwise
C22_SplitAtDotSo ==
    output.by = "split_so_name" =>
        LET so_name == output.result[1]
            so_version == output.result[2]
        IN  /\ so_name # None
            /\ Find(so_name[1], DotSo) = Some(Len(so_name[1]) - 3)
            /\ IsPrefix(so_name[1], input)
            /\ so_version = None <=> so_name[1] = input
            /\ so_version # None => so_name[1] \o so_version[1] = input

\* the text from its i-th line on
RECURSIVE FromLine(_, _)
FromLine(text, i) ==
    IF i <= 1 THEN text
    ELSE FromLine(SubSeq(text, LineEnd(text) + 2, Len(text)), i - 1)

\* line i is the first header line "Valid-Until: <v>" of the text
IsValidUntilLine(text, i) ==
    /\ i \in DOMAIN Lines(text)
    /\ IsPrefix(<<"V", ":", " ">>, Lines(text)[i])
    /\ \A j \in 1..(i - 1) : ~IsPrefix(<<"V", ":", " ">>, Lines(text)[j])

TwoLevels(path) ==
    /\ Len(path) >= 4
    /\ path[1] = "pool"
    /\ path[Len(path)] = "a.deb"
    /\ \A i \in 2..(Len(path) - 1) : path[i] \notin {"..", "a.deb"}

\* C24: get_branch_name returns (branch, component), the first two
\* components under pool, only for a path with two directory levels between
\* pool/ and the .deb file; any other path, a .deb directly under
\* pool/<branch>/ among them, fails with an error
C24_TwoLevelsOrError ==
    output.by = "get_branch_name" =>
        IF TwoLevels(input) THEN output.result = Ok(<<input[2], input[3]>>)
        ELSE ~output.result.ok

HasMember(archive, tar) == \E i \in DOMAIN archive.members : archive.members[i].tar = tar

\* C25: open_deb_advanced yields a PackageMeta only when the archive has a
\* control.tar and a data.tar member and the control record has all seven
\* required fields; without one of the seven the package fails; a missing
\* X-AOSC-Features never fails it, features is then absent
C25_RequiredFields ==
    output.by = "open_deb_advanced" =>
        /\ output.result.ok =>
               /\ HasMember(input, "control.tar")
               /\ HasMember(input, "data.tar")
               /\ RequiredFields \subseteq input.control
               /\ output.result.value.deb.features = None
                      <=> "X-AOSC-Features" \notin input.control
        /\ (HasMember(input, "control.tar") /\ ~(RequiredFields \subseteq input.control))
               => ~output.result.ok
        /\ output.result.ok
               <=> open_deb_members([input EXCEPT !.control = @ \ {"X-AOSC-Features"}]).ok

C25_Witness ==
    /\ output.by = "open_deb_advanced"
    /\ output.result.ok
    /\ input.control = RequiredFields

-----------------------------------------------------------------------------
(* Claims on the scans of a pool that was scanned before *)

\* the file a main-table row is about
FileOf(p) == Entry(disk, Join(MirrorRoot, p.filename))

\* C26: applying needs_update for a file whose size and sha256 match the
\* record and whose mtime differs changes the mtime column of the main-table
\* row of that record and nothing else: every other row of the main table and
\* every file, dependency, sodep, duplicate and repo row is as it was, and the
\* file is not among the files to scan.
C26_RefreshOnlyMtime ==
    (pc # "idle" /\ needs_update # EmptyBag) =>
        LET after == update_unchanged_packages(pre, needs_update, MirrorRoot)
            Refreshed(p) == IF Outcome(disk, MirrorRoot, p) = "update"
                            THEN [p EXCEPT !.mtime = FileOf(p).mtime] ELSE p
        IN  /\ oplog # <<>> /\ oplog[1] = "needs_update"
            /\ after.pv_packages = {Refreshed(p) : p \in pre.pv_packages}
            /\ [after EXCEPT !.pv_packages = pre.pv_packages] = pre
            /\ \A u \in BagToSet(needs_update) : u[1] \notin changed
            /\ oplog = <<"needs_update">> => db = after

\* the file, dependency and sodep rows the tables hold for a key
RowsOf(d, key) ==
    <<{f \in d.pv_package_files : Key(f) = key},
      {f \in d.pv_package_dependencies : Key(f) = key},
      {f \in d.pv_package_sodep : Key(f) = key}>>

\* the file, dependency and sodep rows derived from one scanned package
Derived(package) ==
    <<FileRows(package),
      DependencyRows(package),
      SodepRows(package, package.contents.so_requires, 1)
          \cup SodepRows(package, package.contents.so_provides, 0)>>

\* C27: after save_packages_to_db has committed, the file, dependency and
\* sodep rows stored for every key saved in the batch are exactly the rows
\* derived from the last package saved for that key; no row written for an
\* earlier .deb of the key, in this batch or before it, is left.
C27_RowsOfLastSaved ==
    Saved =>
        \A i \in 1..Len(packages) :
            LastOfKey(i) =>
                RowsOf(db, Key(PackageRow(packages[i]))) = Derived(packages[i])

\* two packages of one key, with other rows, are saved in one batch over a
\* key that had rows, and the batch leaves a duplicate row of the key
C27_Witness ==
    /\ Saved
    /\ \E i, j \in 1..Len(packages) :
           /\ i < j
           /\ Key(PackageRow(packages[i])) = Key(PackageRow(packages[j]))
           /\ Derived(packages[i]) # Derived(packages[j])
           /\ RowsOf(pre, Key(PackageRow(packages[j]))) # <<{}, {}, {}>>
           /\ \E dup \in db.pv_package_duplicate : Key(dup) = Key(PackageRow(packages[j]))

\* a path of to_remove finds no row of the main table when its DELETE runs:
\* it has none, or it is listed twice and the first DELETE took its rows
NoRowToRemove ==
    \E q \in BagToSet(deleted) :
        \/ ~\E p \in pre.pv_packages : p.filename = q
        \/ deleted[q] > 1

\* C29: when a path of to_remove finds no row of the main table, the scan
\* ends with an error, no package row has been deleted, no repo mtime has
\* been changed, and neither the repo upsert nor the package save has run:
\* the tables are as the scan found them, but for the mtime refresh.
C29_RemoveAllOrNothing ==
    (pc = "done" /\ NoRowToRemove) =>
        /\ result = "err"
        /\ ExceptPackageMtime(db) = ExceptPackageMtime(pre)
        /\ \A i \in 1..Len(oplog) : oplog[i] \notin {"remove", "repos", "save"}

\* the failing path is not alone: another vanished file has a row to delete,
\* and a changed file waits to be saved
C29_Witness ==
    /\ pc = "done"
    /\ NoRowToRemove
    /\ \E q \in BagToSet(deleted) :
           deleted[q] = 1 /\ \E p \in pre.pv_packages : p.filename = q
    /\ changed # {}

-----------------------------------------------------------------------------
(* Claims on the workers of validate_packages *)

\* the slice as the bag of its records
BagOfSlice == [r \in Range(input) |-> Cardinality({i \in 1..Len(input) : input[i] = r})]

PushedBy(i) == validate_package(disk, MirrorRoot, input[i])

\* C28: in whatever order the workers of validate_packages run, to_remove,
\* scanned and needs_update hold, as sets, what the records give one by one;
\* no path is in both to_remove and scanned, every path of needs_update is in
\* scanned, and nothing is popped from to_remove or needs_update before every
\* worker has finished.
C28_WorkersAgree ==
    LET v == validate_packages(disk, MirrorRoot, BagOfSlice)
    IN  /\ pc = "validated" =>
               /\ Range(delete) = BagToSet(v[1])
               /\ Range(scanned) = BagToSet(v[2])
               /\ Range(needs_update) = BagToSet(v[3])
               /\ Range(delete) \cap Range(scanned) = {}
               /\ \A u \in Range(needs_update) : u[1] \in Range(scanned)
        /\ pc = "idle" =>
               /\ Len(delete) = Cardinality({i \in WorkersDone : PushedBy(i).to_remove # <<>>})
               /\ Len(needs_update) =
                      Cardinality({i \in WorkersDone : PushedBy(i).needs_update # <<>>})
        /\ pc # "idle" => WorkersDone = 1..Len(input)

\* the workers pushed into needs_update against the order of the slice, and
\* a third record is neither removed nor scanned
C28_Witness ==
    /\ pc = "validated"
    /\ Len(input) = 3
    /\ \E i, j \in 1..3 :
           /\ i < j
           /\ needs_update = PushedBy(j).needs_update \o PushedBy(i).needs_update
           /\ Len(needs_update) = 2
           /\ needs_update[1] # needs_update[2]
    /\ Len(scanned) = 2
    /\ delete = <<>>

-----------------------------------------------------------------------------
(* Claims on a release run that follows a release run *)

\* a release run has just ended well; nothing has changed since
JustReleased == cmd.name = "release" /\ cmd.result = "ok"

\* C30: for a release run that comes right after a successful release run,
\* the tables being as that run saw them, need_regenerate gives the empty
\* list, with a signing certificate and without one.
C30_SecondRunRegeneratesNothing ==
    JustReleased => need_regenerate(db, dists, clock + 1) = {}

====
